---- MODULE Spec2Model ----
(***************************************************************************)
(* Physical planning (tile) and staged execution (execute) of the grouped  *)
(* aggregation operand DataFrameGroupByAgg of                              *)
(* python/xorbits/_mars/dataframe/groupby/aggregation.py.                  *)
(*                                                                         *)
(* A chunk graph is a sequence of chunk nodes in creation order; a chunk   *)
(* is named by its position in that sequence.  Positions 1..in_chunks are  *)
(* the chunks of the input tileable.  Row positions (chunk.index[0]) are   *)
(* 0-based as in the source.                                               *)
(***************************************************************************)
EXTENDS Integers, Sequences, FiniteSets, TLC

\* ------------------------------------------------------------------ bounds
\* Largest number of input chunks of a planning request.
MaxChunks == 5
\* Largest aggregated size one probe chunk records.
MaxAggSize == 2
\* Largest number of input chunks of an executed plan.
MaxExecChunks == 5
\* Largest number of subtasks one runner is given.
MaxRuns == 3

\* The values a request draws combine_size and chunk_store_limit from.
CombineSizes == {2, 3}
ChunkStoreLimits == {4, 10, 16}
\* The raw and the aggregated sizes a probe chunk can record.
RawSizes == {6 + i : i \in 1..MaxChunks}
AggSizes == 0..MaxAggSize

\* ------------------------------------------------------------ plain values
\* Python's None where the field is a number.
NoValue == 0 - 1
\* Python's None where the field is a string.
NoName == "None"

Min(a, b) == IF a < b THEN a ELSE b

RECURSIVE SumSeq(_)
SumSeq(s) == IF s = <<>> THEN 0 ELSE Head(s) + SumSeq(Tail(s))

\* A size as the exact fraction num / den (the source computes in floats).
Rat(num, den) == [some |-> TRUE, num |-> num, den |-> den]
NoSize == [some |-> FALSE, num |-> 0, den |-> 1]
RatLess(a, b) == a.num * b.den < b.num * a.den
RatLeq(a, b) == a.num * b.den <= b.num * a.den
RatTimes(a, k) == [a EXCEPT !.num = a.num * k]

\* ------------------------------------------------------------------- state
VARIABLES
    op,           \* the planning operand: method, combine_size, chunk_store_limit, sort
    in_chunks,    \* len(in_df.chunks)
    graph,        \* the chunks created so far, in creation order
    out_chunks,   \* the chunks of the tileable tile() returned
    pc,           \* where the planner is: "init", "probe" (suspended at yield), "done", "error"
    path,         \* which builder returned the tileable: "none", "tree", "shuffle"
    yields,       \* how many times tile() has yielded
    probe_chunks, \* the chunks tile() yielded
    recorder,     \* the remote SizeRecorder object of the context
    raw_sizes,    \* what the planner read with size_recorder.get() (line 904)
    agg_sizes,
    ctx,          \* the execution context: chunk -> stored data
    events,       \* the calls made on the context's remote objects and the planning
                  \* step that follows them, in the order they happened
    failed,       \* the chunks whose execution raised
    first_run,    \* what an earlier tile() on the same operand left, if there was one
    call,         \* a call of agg(): its arguments and how far it has come
    runner        \* a subtask runner of a worker: the subtask in its slot and its last result

vars == <<op, in_chunks, graph, out_chunks, pc, path, yields, probe_chunks,
          recorder, raw_sizes, agg_sizes, ctx, events, failed, first_run, call, runner>>

\* -------------------------------------------------------------- chunk nodes
Chunk(kind, stage, inputs, index) ==
    [kind |-> kind, stage |-> stage, inputs |-> inputs, index |-> index,
     size_recorder_name |-> NoName, n_partition |-> NoValue,
     shuffle_size |-> NoValue, n_reducers |-> NoValue,
     reducer_index |-> NoValue, shape0 |-> NoValue]

\* The chunks of the input tileable (build_concatenated_rows_frame: one per row block).
SourceChunks(n) == [i \in 1..n |-> Chunk("source", "none", <<>>, i - 1)]

\* A builder's result: the graph it left and the chunks it returns.
Built(g, chunks) == [g |-> g, chunks |-> chunks]

\* The positions Len(g)+1 .. Len(g)+k of k chunks appended to g.
NewIds(g, k) == [i \in 1..k |-> Len(g) + i]

\* -------------------------------------------------------- the size recorder
\* str(uuid.uuid4()): the k-th name drawn in a session.
UuidNames == <<"uuid4-a", "uuid4-b">>
RecorderName(k) == UuidNames[k]
NoRecorder ==
    [created |-> 0, name |-> NoName, alive |-> FALSE,
     raw_records |-> <<>>, agg_records |-> <<>>]

\* SizeRecorder.__init__ through ctx.create_remote_object under the next name
CreateRecorder(r) ==
    [created |-> r.created + 1, name |-> RecorderName(r.created + 1), alive |-> TRUE,
     raw_records |-> <<>>, agg_records |-> <<>>]

\* A recorder that puts the raw size at the front of its list.
RecordRawFirst(r, raw_record, agg_record) ==
    [r EXCEPT !.raw_records = <<raw_record>> \o @,
              !.agg_records = Append(@, agg_record)]

\* SizeRecorder.record
Record(r, raw_record, agg_record) ==
    [r EXCEPT !.raw_records = Append(@, raw_record),
              !.agg_records = Append(@, agg_record)]

\* SizeRecorder.get
Get(r) == <<r.raw_records, r.agg_records>>

\* ctx.destroy_remote_object
DestroyRecorder(r) ==
    [r EXCEPT !.alive = FALSE, !.raw_records = <<>>, !.agg_records = <<>>]

\* ------------------------------------------------------------------ frames
\* A frame is a sequence of rows <<key, value>>.  The stages exchange tuples of
\* frames, one entry per step of agg_funcs.
KeysOf(f) == {f[i][1] : i \in DOMAIN f}

RECURSIVE SortedKeys(_)
SortedKeys(S) ==
    IF S = {} THEN <<>>
    ELSE LET m == CHOOSE x \in S : \A y \in S : x <= y
         IN <<m>> \o SortedKeys(S \ {m})

RECURSIVE FirstSeenKeys(_)
FirstSeenKeys(f) ==
    IF f = <<>> THEN <<>>
    ELSE LET k == Head(f)[1]
         IN <<k>> \o FirstSeenKeys(SelectSeq(Tail(f), LAMBDA r : r[1] # k))

SumKey(f, k) ==
    LET sel == SelectSeq(f, LAMBDA r : r[1] = k)
    IN SumSeq([i \in DOMAIN sel |-> sel[i][2]])

\* _get_grouped then _do_predefined_agg with "sum": df.groupby(by or level,
\* sort=sort).agg("sum"), one row per key present.
GroupBySum(f, sort) ==
    LET ks == IF sort THEN SortedKeys(KeysOf(f)) ELSE FirstSeenKeys(f)
    IN [i \in DOMAIN ks |-> <<ks[i], SumKey(f, ks[i])>>]

\* The steps of func_infos.agg_funcs: the request is a sum of the value column.
AggFuncs == <<"sum">>

\* ctx[key] = data
Store(c, key, data) == [k \in DOMAIN c \cup {key} |-> IF k = key THEN data ELSE c[k]]

\* _execute_map without the record call: the map function of every step on the
\* grouped input chunk.
MapOutput(g, c, chunk, sort) ==
    LET in_data == c[g[chunk].inputs[1]]
    IN [s \in DOMAIN AggFuncs |-> GroupBySum(in_data, sort)]

\* A combine stage that counts the partial results of a key where it should add them.
CombineOutputCount(g, c, chunk, sort) ==
    LET in_data_tuple == c[g[chunk].inputs[1]]
    IN [s \in DOMAIN AggFuncs |->
          LET f == in_data_tuple[s]
              counted == [i \in DOMAIN f |-> <<f[i][1], 1>>]
          IN GroupBySum(counted, sort)]

\* _execute_combine: each step's combine function on the regrouped entry of the
\* input tuple at the step's position.
CombineOutput(g, c, chunk, sort) ==
    LET in_data_tuple == c[g[chunk].inputs[1]]
    IN [s \in DOMAIN AggFuncs |-> GroupBySum(in_data_tuple[s], sort)]

\* _execute_agg: each step's agg function on the regrouped entry of the input tuple,
\* then the post function of the sum, which returns it as the result frame.
AggOutput(g, c, chunk, sort) ==
    LET in_data_tuple == c[g[chunk].inputs[1]]
        in_data_dict == [s \in DOMAIN AggFuncs |-> GroupBySum(in_data_tuple[s], sort)]
    IN in_data_dict[1]

\* ------------------------------------------- operands executed outside this file
RECURSIVE Flatten(_)
Flatten(frames) ==
    IF frames = <<>> THEN <<>> ELSE Head(frames) \o Flatten(Tail(frames))

RECURSIVE Insert(_, _)
Insert(x, sorted) ==
    IF sorted = <<>> THEN <<x>>
    ELSE IF x <= Head(sorted) THEN <<x>> \o sorted
    ELSE <<Head(sorted)>> \o Insert(x, Tail(sorted))

RECURSIVE SortValues(_)
SortValues(s) == IF s = <<>> THEN <<>> ELSE Insert(Head(s), SortValues(Tail(s)))

\* DataFrameConcat on chunks that hold tuples: entry by entry, in input order.
ConcatOutput(g, c, chunk) ==
    LET ins == g[chunk].inputs
    IN [s \in DOMAIN AggFuncs |-> Flatten([i \in DOMAIN ins |-> c[ins[i]][s]])]

\* DataFramePSRSGroupbySample: n_partition key values of the chunk at regular steps.
SampleOutput(g, c, chunk) ==
    LET keys == SortedKeys(KeysOf(c[g[chunk].inputs[1]][1]))
        n == g[chunk].n_partition
    IN IF keys = <<>> THEN <<>>
       ELSE [j \in 1..n |-> keys[((j - 1) * Len(keys)) \div n + 1]]

\* DataFrameGroupbyConcatPivot: all samples sorted at one point, n_partition - 1
\* boundary values at regular steps.
PivotOutput(g, c, chunk) ==
    LET ins == g[chunk].inputs
        all == SortValues(Flatten([i \in DOMAIN ins |-> c[ins[i]]]))
        n == g[chunk].n_partition
    IN IF all = <<>> THEN <<>>
       ELSE [j \in 1..(n - 1) |-> all[(j * Len(all)) \div n + 1]]

\* The bucket of a key against the pivots: the number of boundary values below it.
PivotBucket(k, pivots) == Cardinality({j \in DOMAIN pivots : pivots[j] < k})

\* The bucket of a key with no pivots: by its hash.
HashBucket(k, n) == k % n

\* DataFrameGroupbySortShuffle, stage map: the chunk's rows split into n_partition
\* buckets against the pivot chunk.
SortShuffleMapOutput(g, c, chunk) ==
    LET data == c[g[chunk].inputs[1]]
        pivots == c[g[chunk].inputs[2]]
    IN [b \in 1..g[chunk].n_partition |->
          [s \in DOMAIN AggFuncs |->
             SelectSeq(data[s], LAMBDA r : PivotBucket(r[1], pivots) = b - 1)]]

\* DataFrameGroupByOperand, stage map: the chunk's rows split into shuffle_size
\* buckets by hash.
HashShuffleMapOutput(g, c, chunk) ==
    LET data == c[g[chunk].inputs[1]]
    IN [b \in 1..g[chunk].shuffle_size |->
          [s \in DOMAIN AggFuncs |->
             SelectSeq(data[s], LAMBDA r : HashBucket(r[1], g[chunk].shuffle_size) = b - 1)]]

\* DataFrameShuffleProxy: the exchange boundary holds every writer's buckets.
ProxyOutput(g, c, chunk) ==
    LET ins == g[chunk].inputs
    IN [i \in DOMAIN ins |-> c[ins[i]]]

\* A reduce-stage chunk: the rows of its bucket from every writer.
ReduceOutput(g, c, chunk) ==
    LET written == c[g[chunk].inputs[1]]
        bucket == IF g[chunk].kind = "sort_shuffle"
                  THEN g[chunk].reducer_index ELSE g[chunk].index
    IN [s \in DOMAIN AggFuncs |->
          Flatten([w \in DOMAIN written |-> written[w][bucket + 1][s]])]

\* The chunks of a series given as a grouping key (an entity in the list by): one per
\* row block, like the input's.
KeySeriesChunks(n) == [i \in 1..n |-> Chunk("by_source", "none", <<>>, i - 1)]

\* v.cix[chunk.index[0],] for every entity v in by: the key chunks at a row position.
ByChunks(g, index) ==
    SortedKeys({c \in DOMAIN g : g[c].kind = "by_source" /\ g[c].index = index})

\* Map chunks that read their input chunk and nothing else.
GenMapChunksInputOnly(g, in_ids) ==
    LET new == [i \in 1..Len(in_ids) |->
                   Chunk("groupby_agg", "map", <<in_ids[i]>>, g[in_ids[i]].index)]
    IN Built(g \o new, NewIds(g, Len(in_ids)))

\* ------------------------------------------------------------ _gen_map_chunks
\* One map-stage aggregation chunk per input chunk, at the input chunk's row position.
GenMapChunks(g, in_ids) ==
    LET new == [i \in 1..Len(in_ids) |->
                   Chunk("groupby_agg", "map",
                         <<in_ids[i]>> \o ByChunks(g, g[in_ids[i]].index),
                         g[in_ids[i]].index)]
    IN Built(g \o new, NewIds(g, Len(in_ids)))

\* A round that puts a concatenation under every combine chunk, also over one chunk.
RECURSIVE TreeRoundAlwaysConcat(_, _, _, _, _)
TreeRoundAlwaysConcat(g, chunks, combine_size, i, new_chunks) ==
    IF i > Len(chunks) THEN Built(g, new_chunks)
    ELSE
      LET chks == SubSeq(chunks, i, Min(i + combine_size - 1, Len(chunks)))
          g1 == Append(g, Chunk("concat", "none", chks, NoValue))
          g2 == Append(g1, Chunk("groupby_agg", "combine", <<Len(g1)>>, Len(new_chunks)))
      IN TreeRoundAlwaysConcat(g2, chunks, combine_size, i + combine_size,
                               Append(new_chunks, Len(g2)))

\* --------------------------------------------------------- _build_tree_chunks
\* The body of the for loop of one round, from the batch starting at position i
\* (1-based) on: chunks[i : i + combine_size] is concatenated unless it is a single
\* chunk, and a combine-stage chunk is put on top of it.
RECURSIVE TreeRound(_, _, _, _, _)
TreeRound(g, chunks, combine_size, i, new_chunks) ==
    IF i > Len(chunks) THEN Built(g, new_chunks)
    ELSE
      LET chks == SubSeq(chunks, i, Min(i + combine_size - 1, Len(chunks)))
          idx == Len(new_chunks)
          \* c._index = (j, 0) for the chunks of a batch that is concatenated
          reindexed == [c \in DOMAIN g |->
                          IF \E j \in DOMAIN chks : chks[j] = c
                          THEN [g[c] EXCEPT !.index =
                                  (CHOOSE j \in DOMAIN chks : chks[j] = c) - 1]
                          ELSE g[c]]
          g1 == IF Len(chks) = 1 THEN g
                ELSE Append(reindexed, Chunk("concat", "none", chks, NoValue))
          chk == IF Len(chks) = 1 THEN chks[1] ELSE Len(g1)
          g2 == Append(g1, Chunk("groupby_agg", "combine", <<chk>>, idx))
      IN TreeRound(g2, chunks, combine_size, i + combine_size,
                   Append(new_chunks, Len(g2)))

\* A loop that goes on while at least combine_size chunks are left.
RECURSIVE BuildTreeChunksOneMore(_, _, _, _, _)
BuildTreeChunksOneMore(g, chunks, combine_size, concat_chunk_size, chunk_store_limit) ==
    IF /\ (~concat_chunk_size.some \/ RatLess(concat_chunk_size, chunk_store_limit))
       /\ Len(chunks) >= combine_size
    THEN LET r == TreeRound(g, chunks, combine_size, 1, <<>>)
         IN BuildTreeChunksOneMore(r.g, r.chunks, combine_size,
                IF concat_chunk_size.some
                THEN RatTimes(concat_chunk_size, combine_size)
                ELSE concat_chunk_size,
                chunk_store_limit)
    ELSE [g |-> g, chunks |-> chunks, concat_size |-> concat_chunk_size,
          pair |-> concat_chunk_size.some /\ concat_chunk_size.num # 0]

\* The while loop.  input_chunk_size is NoSize when no ceiling is supplied.  The
\* result also says whether the source returns the pair (chunks, concat_chunk_size)
\* or the chunk list alone ("if concat_chunk_size:").
RECURSIVE BuildTreeChunks(_, _, _, _, _)
BuildTreeChunks(g, chunks, combine_size, concat_chunk_size, chunk_store_limit) ==
    IF /\ (~concat_chunk_size.some \/ RatLess(concat_chunk_size, chunk_store_limit))
       /\ Len(chunks) > combine_size
    THEN LET r == TreeRound(g, chunks, combine_size, 1, <<>>)
         IN BuildTreeChunks(r.g, r.chunks, combine_size,
                IF concat_chunk_size.some
                THEN RatTimes(concat_chunk_size, combine_size)
                ELSE concat_chunk_size,
                chunk_store_limit)
    ELSE [g |-> g, chunks |-> chunks, concat_size |-> concat_chunk_size,
          pair |-> concat_chunk_size.some /\ concat_chunk_size.num # 0]

\* A builder that returns the surviving chunks themselves, with no agg-stage chunk.
BuildOutTileableUnwrapped(g, combined_chunks) == Built(g, combined_chunks)

\* -------------------------------------------------------- _build_out_tileable
\* The surviving chunks are concatenated unless there is one, and a single agg-stage
\* chunk at position 0 is the only chunk of the returned tileable.
BuildOutTileable(g, combined_chunks) ==
    LET g1 == IF Len(combined_chunks) = 1 THEN g
              ELSE Append(g, Chunk("concat", "none", combined_chunks, NoValue))
        chk == IF Len(combined_chunks) = 1 THEN combined_chunks[1] ELSE Len(g1)
        g2 == Append(g1, Chunk("groupby_agg", "agg", <<chk>>, 0))
    IN Built(g2, <<Len(g2)>>)

\* _combine_tree: the tree with no ceiling, then the output tileable.
CombineTree(g, chunks, combine_size) ==
    LET t == BuildTreeChunks(g, chunks, combine_size, NoSize, NoSize)
    IN BuildOutTileable(t.g, t.chunks)

\* _tile_with_tree
TileWithTree(g, n, combine_size) ==
    LET m == GenMapChunks(g, [i \in 1..n |-> i])
    IN CombineTree(m.g, m.chunks, combine_size)

\* ------------------------------------------------------------- _sample_chunks
\* One sampling chunk per chunk entering the shuffle, at row position i.
SampleChunks(g, agg_chunks) ==
    LET chunk_shape == Len(agg_chunks)
        new == [i \in 1..Len(agg_chunks) |->
                  [Chunk("psrs_sample", "none", <<agg_chunks[i]>>, i - 1)
                     EXCEPT !.n_partition = chunk_shape, !.shape0 = chunk_shape]]
    IN Built(g \o new, NewIds(g, Len(agg_chunks)))

\* ----------------------------------------------------------- _gen_pivot_chunk
\* The single merge point of all samples: shape=(agg_chunk_len,).
GenPivotChunk(g, sample_chunks, agg_chunk_len) ==
    LET g1 == Append(g, [Chunk("concat_pivot", "none", sample_chunks, NoValue)
                           EXCEPT !.n_partition = agg_chunk_len,
                                  !.shape0 = agg_chunk_len])
    IN Built(g1, <<Len(g1)>>)

\* -------------------------------------------------------- partition_local_data
\* One partitioning chunk (stage map) per chunk entering the shuffle, reading the
\* chunk and the pivot chunk; shuffle_size is in_df.chunk_shape[0].
PartitionLocalData(g, sorted_chunks, concat_pivot_chunk, n_in) ==
    LET new == [i \in 1..Len(sorted_chunks) |->
                  [Chunk("sort_shuffle", "map",
                         <<sorted_chunks[i], concat_pivot_chunk>>,
                         g[sorted_chunks[i]].index)
                     EXCEPT !.shuffle_size = n_in,
                            !.n_partition = Len(sorted_chunks),
                            !.shape0 = n_in]]
    IN Built(g \o new, NewIds(g, Len(sorted_chunks)))

\* DataFrameShuffleProxy(...).new_chunk(map_chunks)
ProxyChunk(g, map_chunks) ==
    LET g1 == Append(g, Chunk("shuffle_proxy", "none", map_chunks, NoValue))
    IN Built(g1, <<Len(g1)>>)

\* A merge that leaves out the reducer of the last bucket.
PartitionMergeDataDropLast(g, partition_chunks, proxy_chunk) ==
    LET new == [i \in 1..(Len(partition_chunks) - 1) |->
                  [Chunk("sort_shuffle", "reduce", <<proxy_chunk>>,
                         g[partition_chunks[i]].index)
                     EXCEPT !.reducer_index = i - 1,
                            !.n_reducers = Len(partition_chunks)]]
    IN Built(g \o new, NewIds(g, Len(partition_chunks) - 1))

\* A merge whose reducers all read the first bucket.
PartitionMergeDataFirstBucket(g, partition_chunks, proxy_chunk) ==
    LET new == [i \in 1..Len(partition_chunks) |->
                  [Chunk("sort_shuffle", "reduce", <<proxy_chunk>>,
                         g[partition_chunks[i]].index)
                     EXCEPT !.reducer_index = 0,
                            !.n_reducers = Len(partition_chunks)]]
    IN Built(g \o new, NewIds(g, Len(partition_chunks)))

\* -------------------------------------------------------- partition_merge_data
\* One reduce-stage chunk per partitioning chunk, reading the proxy chunk only.
PartitionMergeData(g, partition_chunks, proxy_chunk) ==
    LET new == [i \in 1..Len(partition_chunks) |->
                  [Chunk("sort_shuffle", "reduce", <<proxy_chunk>>,
                         g[partition_chunks[i]].index)
                     EXCEPT !.reducer_index = i - 1,
                            !.n_reducers = Len(partition_chunks)]]
    IN Built(g \o new, NewIds(g, Len(partition_chunks)))

\* ---------------------------------------------- _gen_shuffle_chunks_with_pivot
GenShuffleChunksWithPivot(g, n_in, chunks, pivot) ==
    LET m == PartitionLocalData(g, chunks, pivot, n_in)
        p == ProxyChunk(m.g, m.chunks)
    IN PartitionMergeData(p.g, m.chunks, p.chunks[1])

\* A shuffle whose map-side chunks carry no stage.
GenShuffleChunksUnstaged(g, chunks) ==
    LET chunk_shape == Len(chunks)
        maps == [i \in 1..Len(chunks) |->
                   [Chunk("groupby_shuffle", "none", <<chunks[i]>>, g[chunks[i]].index)
                      EXCEPT !.shuffle_size = chunk_shape]]
        g1 == g \o maps
        p == ProxyChunk(g1, NewIds(g, Len(chunks)))
        reduces == [i \in 1..chunk_shape |->
                      [Chunk("groupby_shuffle", "reduce", <<p.chunks[1]>>, i - 1)
                         EXCEPT !.n_reducers = chunk_shape]]
    IN Built(p.g \o reduces, NewIds(p.g, chunk_shape))

\* --------------------------------------------------------- _gen_shuffle_chunks
\* The shuffle with no pivot: a shuffle map chunk per chunk, the proxy, and one
\* reduce chunk per index of itertools.product(range(len(chunks)), range(1)).
GenShuffleChunks(g, chunks) ==
    LET chunk_shape == Len(chunks)
        maps == [i \in 1..Len(chunks) |->
                   [Chunk("groupby_shuffle", "map", <<chunks[i]>>, g[chunks[i]].index)
                      EXCEPT !.shuffle_size = chunk_shape]]
        g1 == g \o maps
        p == ProxyChunk(g1, NewIds(g, Len(chunks)))
        reduces == [i \in 1..chunk_shape |->
                      [Chunk("groupby_shuffle", "reduce", <<p.chunks[1]>>, i - 1)
                         EXCEPT !.n_reducers = chunk_shape]]
    IN Built(p.g \o reduces, NewIds(p.g, chunk_shape))

\* A choice that takes the pivot path for every sorted request.
ReduceChunksPivotWhenSorted(g, agg_chunks, n_in, sort) ==
    IF sort
    THEN LET agg_chunk_len == Len(agg_chunks)
             s == SampleChunks(g, agg_chunks)
             v == GenPivotChunk(s.g, s.chunks, agg_chunk_len)
         IN GenShuffleChunksWithPivot(v.g, n_in, agg_chunks, v.chunks[1])
    ELSE GenShuffleChunks(g, agg_chunks)

\* The topology _perform_shuffle chooses (line 647, else line 655).
ReduceChunks(g, agg_chunks, n_in, sort) ==
    IF sort /\ n_in > 1
    THEN LET agg_chunk_len == Len(agg_chunks)
             s == SampleChunks(g, agg_chunks)
             v == GenPivotChunk(s.g, s.chunks, agg_chunk_len)
         IN GenShuffleChunksWithPivot(v.g, n_in, agg_chunks, v.chunks[1])
    ELSE GenShuffleChunks(g, agg_chunks)

\* A shuffle that returns the reduce chunks themselves, with no agg-stage chunk.
PerformShuffleUnwrapped(g, agg_chunks, n_in, sort) ==
    LET r == ReduceChunks(g, agg_chunks, n_in, sort)
    IN Built(r.g, r.chunks)

\* ------------------------------------------------------------ _perform_shuffle
\* The reduce chunks, then one agg-stage chunk on each, at the reduce chunk's row
\* position; these agg chunks are the chunks of the returned tileable.
PerformShuffle(g, agg_chunks, n_in, sort) ==
    LET r == ReduceChunks(g, agg_chunks, n_in, sort)
        aggs == [i \in 1..Len(r.chunks) |->
                   Chunk("groupby_agg", "agg", <<r.chunks[i]>>, r.g[r.chunks[i]].index)]
    IN Built(r.g \o aggs, NewIds(r.g, Len(r.chunks)))

\* _tile_with_shuffle
TileWithShuffle(g, n, sort) ==
    LET m == GenMapChunks(g, [i \in 1..n |-> i])
    IN PerformShuffle(m.g, m.chunks, n, sort)

\* A ceiling of the whole chunk_store_limit.
CombineChunkLimitWhole(chunk_store_limit) == Rat(chunk_store_limit, 1)

\* combine_chunk_limit = op.chunk_store_limit / 4
CombineChunkLimit(chunk_store_limit) == Rat(chunk_store_limit, 4)

\* A builder that generates the map chunks of every input again after the probe.
BuildTreeAndShuffleChunksRegenerated(g, n, o, sample_map_chunks, sample_agg_sizes) ==
    LET combine_size == o.combine_size
        all == GenMapChunks(g, [i \in 1..n |-> i])
        input_size == Rat(SumSeq(sample_agg_sizes), Len(sample_agg_sizes))
        combine_chunk_limit == CombineChunkLimit(o.chunk_store_limit)
        t == BuildTreeChunks(all.g, all.chunks, combine_size,
                             input_size, combine_chunk_limit)
    IN IF ~t.pair
       THEN [g |-> t.g, chunks |-> <<>>, path |-> "none", ok |-> FALSE]
       ELSE IF RatLeq(t.concat_size, combine_chunk_limit)
       THEN LET b == BuildOutTileable(t.g, t.chunks)
            IN [g |-> b.g, chunks |-> b.chunks, path |-> "tree", ok |-> TRUE]
       ELSE LET b == PerformShuffle(t.g, t.chunks, n, o.groupby_params.sort)
            IN [g |-> b.g, chunks |-> b.chunks, path |-> "shuffle", ok |-> TRUE]

\* ------------------------------------------------ _build_tree_and_shuffle_chunks
\* The map chunks of the inputs after the probed ones, the tree under the ceiling
\* chunk_store_limit / 4 from the mean recorded aggregated size, then the choice.
\* ok is FALSE where the two-value unpacking of line 848 has no pair to unpack.
BuildTreeAndShuffleChunks(g, n, o, sample_map_chunks, sample_agg_sizes) ==
    LET combine_size == o.combine_size
        left == GenMapChunks(g, [i \in 1..(n - combine_size) |-> combine_size + i])
        input_size == Rat(SumSeq(sample_agg_sizes), Len(sample_agg_sizes))
        combine_chunk_limit == CombineChunkLimit(o.chunk_store_limit)
        t == BuildTreeChunks(left.g, sample_map_chunks \o left.chunks, combine_size,
                             input_size, combine_chunk_limit)
    IN IF ~t.pair
       THEN [g |-> t.g, chunks |-> <<>>, path |-> "none", ok |-> FALSE]
       ELSE IF RatLeq(t.concat_size, combine_chunk_limit)
       THEN LET b == BuildOutTileable(t.g, t.chunks)
            IN [g |-> b.g, chunks |-> b.chunks, path |-> "tree", ok |-> TRUE]
       ELSE LET b == PerformShuffle(t.g, t.chunks, n, o.groupby_params.sort)
            IN [g |-> b.g, chunks |-> b.chunks, path |-> "shuffle", ok |-> TRUE]

\* ------------------------------------------------------------- groupby_params
\* The dict groupby_params: by, as_index, sort, level, selection.  An entry that is
\* absent or None is NoName; an absent level is NoLevel.
NoLevel == <<>>
GroupbyParams ==
    [by : {"k"}, as_index : {FALSE}, sort : BOOLEAN, level : {NoLevel},
     selection : {"v"}]

\* A derived operand writes into the dict of the planning operand itself.
MapOpParamsAliased(p) ==
    LET own == [p EXCEPT !.as_index = TRUE]
    IN [planning |-> own, derived |-> own]

\* _gen_map_chunks, lines 479-493: map_op is op.copy(), its groupby_params is replaced
\* by a copy of the dict, and as_index is forced to True in the copy.  planning is the
\* dict of the planning operand afterwards, derived the dict of the new operand.
MapOpParams(p) ==
    LET copied == p
        own == [copied EXCEPT !.as_index = TRUE]
    IN [planning |-> p, derived |-> own]

\* A combine operand that goes on grouping by the original keys.
CombineOpParamsKeepBy(p, index_levels) ==
    LET copied == p
        own == [copied EXCEPT !.selection = NoName]
    IN [planning |-> p, derived |-> own]

\* _build_tree_chunks, lines 745-753: the combine operand groups by the index levels.
CombineOpParams(p, index_levels) ==
    LET copied == p
        own == [copied EXCEPT !.selection = NoName, !.by = NoName,
                              !.level = [i \in 1..index_levels |-> i - 1]]
    IN [planning |-> p, derived |-> own]

\* _build_out_tileable, lines 797-804: the agg operand of the tree path.
AggOpParams(p, index_levels) ==
    LET copied == p
        own == [copied EXCEPT !.selection = NoName, !.by = NoName,
                              !.level = [i \in 1..index_levels |-> i - 1]]
    IN [planning |-> p, derived |-> own]

\* _perform_shuffle, lines 660-666: the agg operands of the shuffle path.
ShuffleAggOpParams(p, index_levels) ==
    LET copied == p
        own == [copied EXCEPT !.selection = NoName, !.by = NoName,
                              !.level = [i \in 1..index_levels |-> i - 1]]
    IN [planning |-> p, derived |-> own]

\* The dict of the planning operand o after the operands of the chunks of g beyond
\* position from were derived from it, in the order the builders derive them.
ParamsAfter(o, g, from) ==
    LET Has(stage) == \E c \in DOMAIN g :
                         c > from /\ g[c].kind = "groupby_agg" /\ g[c].stage = stage
        shuffled == \E c \in DOMAIN g : c > from /\ g[c].stage = "reduce"
        p1 == IF Has("map") THEN MapOpParams(o.groupby_params).planning
              ELSE o.groupby_params
        p2 == IF Has("combine") THEN CombineOpParams(p1, o.index_levels).planning
              ELSE p1
    IN IF ~Has("agg") THEN p2
       ELSE IF shuffled THEN ShuffleAggOpParams(p2, o.index_levels).planning
       ELSE AggOpParams(p2, o.index_levels).planning

\* ------------------------------------------------------------------ requests
Requests ==
    [method : {"tree", "shuffle", "auto"}, combine_size : CombineSizes,
     chunk_store_limit : ChunkStoreLimits, groupby_params : GroupbyParams,
     index_levels : {1}]

\* A call on a remote object of the context, or the planning step "plan".
Event(e, name, chunk) ==
    [e |-> e, name |-> name, chunk |-> chunk, raw |-> NoValue, agg |-> NoValue]
RecordEvent(name, chunk, raw_record, agg_record) ==
    [e |-> "record", name |-> name, chunk |-> chunk,
     raw |-> raw_record, agg |-> agg_record]

NoRun == [ran |-> FALSE, nodes |-> 0, stages |-> <<>>, yields |-> 0,
          agg_sizes |-> <<>>, pc |-> "none"]
NoCall == [pc |-> "none"]
\* No subtask runner is looked at.
NoRunner == [slot |-> "none"]

Init ==
    /\ op \in Requests
    /\ in_chunks \in 1..MaxChunks
    /\ graph = SourceChunks(in_chunks)
    /\ out_chunks = <<>>
    /\ pc = "init"
    /\ path = "none"
    /\ yields = 0
    /\ probe_chunks = <<>>
    /\ recorder = NoRecorder
    /\ raw_sizes = <<>>
    /\ agg_sizes = <<>>
    /\ ctx = [c \in 1..in_chunks |-> <<>>]
    /\ events = <<>>
    /\ failed = {}
    /\ first_run = NoRun
    /\ call = NoCall
    /\ runner = NoRunner

\* A planner that probes when the chunk count equals combine_size.
AutoUsesTreeStrict(n, combine_size) == n < combine_size

\* A planner that skips the probe for an operand it has planned before.
AutoUsesTreeOnce(n, combine_size) == n <= combine_size \/ first_run.ran

\* tile(), line 933: with method 'auto' the tree is used outright.
AutoUsesTree(n, combine_size) == n <= combine_size

\* tile(), the branches that return _tile_with_tree: method 'tree', and method 'auto'
\* with no more input chunks than combine_size.
TileTree ==
    /\ pc = "init"
    /\ \/ op.method = "tree"
       \/ op.method = "auto" /\ AutoUsesTree(in_chunks, op.combine_size)
    /\ \E t \in {TileWithTree(graph, in_chunks, op.combine_size)} :
          /\ graph' = t.g
          /\ out_chunks' = t.chunks
          /\ op' = [op EXCEPT !.groupby_params = ParamsAfter(op, t.g, in_chunks)]
    /\ pc' = "done"
    /\ path' = "tree"
    /\ UNCHANGED <<in_chunks, yields, probe_chunks, recorder, raw_sizes, agg_sizes,
                   ctx, events, failed, first_run, call, runner>>

\* tile(), method 'shuffle': returns _tile_with_shuffle.
TileShuffle ==
    /\ pc = "init"
    /\ op.method = "shuffle"
    /\ \E t \in {TileWithShuffle(graph, in_chunks, op.groupby_params.sort)} :
          /\ graph' = t.g
          /\ out_chunks' = t.chunks
          /\ op' = [op EXCEPT !.groupby_params = ParamsAfter(op, t.g, in_chunks)]
    /\ pc' = "done"
    /\ path' = "shuffle"
    /\ UNCHANGED <<in_chunks, yields, probe_chunks, recorder, raw_sizes, agg_sizes,
                   ctx, events, failed, first_run, call, runner>>

\* tile() with method 'auto' and more input chunks than combine_size: _tile_auto up
\* to its yield.  The recorder is created under a new name and the map chunks of the
\* first combine_size inputs, carrying that name, are yielded.
TileAuto ==
    /\ pc = "init"
    /\ op.method = "auto"
    /\ ~AutoUsesTree(in_chunks, op.combine_size)
    /\ recorder' = CreateRecorder(recorder)
    /\ events' = Append(events, Event("create", recorder'.name, NoValue))
    /\ LET m == GenMapChunks(graph, [i \in 1..op.combine_size |-> i])
       IN /\ graph' = [c \in DOMAIN m.g |->
                         IF \E i \in DOMAIN m.chunks : m.chunks[i] = c
                         THEN [m.g[c] EXCEPT !.size_recorder_name = recorder'.name]
                         ELSE m.g[c]]
          /\ probe_chunks' = m.chunks
          /\ op' = [op EXCEPT !.groupby_params = ParamsAfter(op, m.g, in_chunks)]
    /\ yields' = yields + 1
    /\ pc' = "probe"
    /\ UNCHANGED <<in_chunks, out_chunks, path, raw_sizes, agg_sizes, ctx, failed,
                   first_run, call, runner>>

\* estimate_pandas_size(in_data), line 1125: the size of the data of the input chunk
\* the map chunk reads; the input chunks hold data of pairwise different sizes.
RawSizeOf(g, chunk) == 6 + g[chunk].inputs[1]

\* sum(estimate_pandas_size(item) for item in agg_dfs), line 1127: the size of the
\* partial aggregates of the input chunk's data.  It is any of AggSizes the first
\* time the data is aggregated and the same size whenever it is aggregated again.
AggSizesOf(g, chunk) ==
    LET seen == {events[k].agg : k \in {j \in DOMAIN events :
                     events[j].e = "record" /\ events[j].raw = RawSizeOf(g, chunk)}}
    IN IF seen = {} THEN AggSizes ELSE seen

\* A map stage that calls record whether a name is attached or not.
ExecuteMapRecordsAlways(chunk, raw_size, agg_size) ==
    /\ graph[chunk].kind = "groupby_agg"
    /\ graph[chunk].stage = "map"
    /\ graph[chunk].inputs[1] \in DOMAIN ctx
    /\ recorder' = Record(recorder, raw_size, agg_size)
    /\ events' = Append(events, RecordEvent(graph[chunk].size_recorder_name, chunk,
                                            raw_size, agg_size))
    /\ ctx' = Store(ctx, chunk, MapOutput(graph, ctx, chunk, op.groupby_params.sort))
    /\ UNCHANGED <<op, in_chunks, graph, out_chunks, pc, path, yields, probe_chunks,
                   raw_sizes, agg_sizes, failed, first_run, call, runner>>

\* _execute_map on chunk: the partial aggregates, one record call on the remote
\* object of the attached name when there is one, then the output is stored.  With a
\* name whose object the context no longer has, the call raises before the store.
ExecuteMap(chunk, raw_size, agg_size) ==
    /\ graph[chunk].kind = "groupby_agg"
    /\ graph[chunk].stage = "map"
    /\ graph[chunk].inputs[1] \in DOMAIN ctx
    /\ LET name == graph[chunk].size_recorder_name
       IN IF name = NoName
          THEN /\ ctx' = Store(ctx, chunk, MapOutput(graph, ctx, chunk, op.groupby_params.sort))
               /\ UNCHANGED <<recorder, events, failed>>
          ELSE IF recorder.alive /\ recorder.name = name
          THEN /\ recorder' = Record(recorder, raw_size, agg_size)
               /\ events' = Append(events, RecordEvent(name, chunk, raw_size, agg_size))
               /\ ctx' = Store(ctx, chunk, MapOutput(graph, ctx, chunk, op.groupby_params.sort))
               /\ UNCHANGED failed
          ELSE /\ failed' = failed \cup {chunk}
               /\ UNCHANGED <<recorder, events, ctx>>
    /\ UNCHANGED <<op, in_chunks, graph, out_chunks, pc, path, yields, probe_chunks,
                   raw_sizes, agg_sizes, first_run, call, runner>>

\* The runtime executes a yielded chunk while the planner is suspended.
ExecuteProbe ==
    /\ pc = "probe"
    /\ \E i \in DOMAIN probe_chunks, raw_size \in RawSizes, agg_size \in AggSizes :
          /\ probe_chunks[i] \notin DOMAIN ctx
          /\ raw_size = RawSizeOf(graph, probe_chunks[i])
          /\ agg_size \in AggSizesOf(graph, probe_chunks[i])
          /\ ExecuteMap(probe_chunks[i], raw_size, agg_size)

\* The calls of _tile_auto after its yield, in program order: get, destroy, then the
\* planning step _build_tree_and_shuffle_chunks.
ResumeEventsPlanFirst(name) ==
    <<Event("get", name, NoValue), Event("plan", NoName, NoValue),
      Event("destroy", name, NoValue)>>

ResumeEvents(name) ==
    <<Event("get", name, NoValue), Event("destroy", name, NoValue),
      Event("plan", NoName, NoValue)>>

\* _tile_auto from its yield on, once the runtime has executed the yielded chunks:
\* the single get, the destroy, then _build_tree_and_shuffle_chunks.
ResumeTileAuto ==
    /\ pc = "probe"
    /\ \A i \in DOMAIN probe_chunks : probe_chunks[i] \in DOMAIN ctx
    /\ raw_sizes' = Get(recorder)[1]
    /\ agg_sizes' = Get(recorder)[2]
    /\ events' = events \o ResumeEvents(recorder.name)
    /\ \E b \in {BuildTreeAndShuffleChunks(graph, in_chunks, op, probe_chunks,
                                           Get(recorder)[2])} :
          /\ graph' = b.g
          /\ out_chunks' = b.chunks
          /\ path' = b.path
          /\ pc' = IF b.ok THEN "done" ELSE "error"
          /\ op' = [op EXCEPT !.groupby_params = ParamsAfter(op, b.g, in_chunks)]
    /\ recorder' = DestroyRecorder(recorder)
    /\ UNCHANGED <<in_chunks, yields, probe_chunks, ctx, failed, first_run, call, runner>>

\* The runtime drops the suspended generator of _tile_auto: nothing after the yield
\* runs, and the yield is inside no try/finally.
Cancel ==
    /\ pc = "probe"
    /\ pc' = "cancelled"
    /\ UNCHANGED <<op, in_chunks, graph, out_chunks, path, yields, probe_chunks,
                   recorder, raw_sizes, agg_sizes, ctx, events, failed, first_run, call, runner>>

Next ==
    \/ TileTree
    \/ TileShuffle
    \/ TileAuto
    \/ ExecuteProbe
    \/ ResumeTileAuto
    \/ Cancel

Spec == Init /\ [][Next]_vars

\* ------------------------------------------------- tile() on the same operand again
\* The stage of every chunk of a graph, in creation order.
StageSequence(g) == [i \in DOMAIN g |-> g[i].stage]

\* tile() is called a second time on the operand and the input tileable the first
\* call was given, as the first call left them.  What the first call built is kept
\* in first_run; the chunks the second call creates are counted from the inputs on.
TileAgain ==
    /\ pc \in {"done", "error"}
    /\ ~first_run.ran
    /\ first_run' = [ran |-> TRUE, nodes |-> Len(graph), stages |-> StageSequence(graph),
                     yields |-> yields, agg_sizes |-> agg_sizes, pc |-> pc]
    /\ graph' = SubSeq(graph, 1, in_chunks)
    /\ out_chunks' = <<>>
    /\ pc' = "init"
    /\ path' = "none"
    /\ yields' = 0
    /\ probe_chunks' = <<>>
    /\ raw_sizes' = <<>>
    /\ agg_sizes' = <<>>
    /\ ctx' = [c \in 1..in_chunks |-> ctx[c]]
    /\ UNCHANGED <<op, in_chunks, recorder, events, failed, call, runner>>

NextAgain ==
    \/ Next
    \/ TileAgain

SpecAgain == Init /\ [][NextAgain]_vars

\* ------------------------------------------ running the map chunks of a finished plan
\* The runtime executes a map-stage chunk of the graph tile() returned, for the first
\* time or again, at any time after planning has completed.
ExecuteFinalMap ==
    /\ pc = "done"
    /\ \E chunk \in {c \in DOMAIN graph :
                         graph[c].kind = "groupby_agg" /\ graph[c].stage = "map"} :
          \* the sizes are estimated only when a recorder name is attached (line 1123)
          IF graph[chunk].size_recorder_name = NoName
          THEN ExecuteMap(chunk, NoValue, NoValue)
          ELSE \E agg_size \in AggSizesOf(graph, chunk) :
                  ExecuteMap(chunk, RawSizeOf(graph, chunk), agg_size)

NextRun ==
    \/ Next
    \/ ExecuteFinalMap

SpecRun == Init /\ [][NextRun]_vars

\* ------------------------------------------------ planning under a running mode
\* A request together with the mode of its session, which runs on one machine or on
\* a cluster.  tile() is given the operand only: no branch of it reads the mode.
ModeRequests ==
    [method : {"tree", "shuffle", "auto"}, combine_size : CombineSizes,
     chunk_store_limit : ChunkStoreLimits, groupby_params : GroupbyParams,
     index_levels : {1}, mode : {"local", "distributed"}]

InitMode ==
    /\ op \in ModeRequests
    /\ in_chunks \in 1..MaxChunks
    /\ graph = SourceChunks(in_chunks)
    /\ out_chunks = <<>>
    /\ pc = "init"
    /\ path = "none"
    /\ yields = 0
    /\ probe_chunks = <<>>
    /\ recorder = NoRecorder
    /\ raw_sizes = <<>>
    /\ agg_sizes = <<>>
    /\ ctx = [c \in 1..in_chunks |-> <<>>]
    /\ events = <<>>
    /\ failed = {}
    /\ first_run = NoRun
    /\ call = NoCall
    /\ runner = NoRunner

SpecMode == InitMode /\ [][Next]_vars

\* --------------------------------------------- planning with a key series in by
\* Requests whose by is the column "k" or a list holding a series ("series"), over
\* results with one or two index levels.
KeyRequests ==
    [method : {"tree", "shuffle", "auto"}, combine_size : CombineSizes,
     chunk_store_limit : {4, 16},
     groupby_params : [by : {"k", "series"}, as_index : {FALSE}, sort : BOOLEAN,
                       level : {NoLevel}, selection : {"v"}],
     index_levels : {1, 2}]

\* The chunks of the key series are in the graph after the input's.
InitKeys ==
    /\ op \in KeyRequests
    /\ in_chunks \in 1..MaxChunks
    /\ graph = SourceChunks(in_chunks) \o
               (IF op.groupby_params.by = "series"
                THEN KeySeriesChunks(in_chunks) ELSE <<>>)
    /\ out_chunks = <<>>
    /\ pc = "init"
    /\ path = "none"
    /\ yields = 0
    /\ probe_chunks = <<>>
    /\ recorder = NoRecorder
    /\ raw_sizes = <<>>
    /\ agg_sizes = <<>>
    /\ ctx = [c \in 1..in_chunks |-> <<>>]
    /\ events = <<>>
    /\ failed = {}
    /\ first_run = NoRun
    /\ call = NoCall
    /\ runner = NoRunner

SpecKeys == InitKeys /\ [][Next]_vars

\* ---------------------------------------------------- executing a finished plan
\* The chunk frames an executed request draws its input chunks from.
ChunkFrames ==
    { <<>>,
      << <<2, 1>>, <<1, 2>>, <<2, 3>> >>,
      << <<3, 1>>, <<1, 1>> >> }

ExecRequests ==
    [method : {"tree", "shuffle"}, combine_size : CombineSizes,
     chunk_store_limit : {16},
     groupby_params : [by : {"k"}, as_index : {TRUE}, sort : BOOLEAN,
                       level : {NoLevel}, selection : {NoName}],
     index_levels : {1}]

InitExec ==
    /\ op \in ExecRequests
    /\ in_chunks \in 1..MaxExecChunks
    /\ graph = SourceChunks(in_chunks)
    /\ out_chunks = <<>>
    /\ pc = "init"
    /\ path = "none"
    /\ yields = 0
    /\ probe_chunks = <<>>
    /\ recorder = NoRecorder
    /\ raw_sizes = <<>>
    /\ agg_sizes = <<>>
    /\ ctx \in [1..in_chunks -> ChunkFrames]
    /\ events = <<>>
    /\ failed = {}
    /\ first_run = NoRun
    /\ call = NoCall
    /\ runner = NoRunner

\* The runtime runs the chunks of the finished graph in creation order, which is a
\* topological order of the graph.
NextToRun(chunk) ==
    /\ pc = "done"
    /\ chunk \in DOMAIN graph
    /\ chunk \notin DOMAIN ctx
    /\ chunk \notin failed
    /\ \A c \in 1..(chunk - 1) : c \in DOMAIN ctx

ExecFrame == <<op, in_chunks, graph, out_chunks, pc, path, yields, probe_chunks,
               recorder, raw_sizes, agg_sizes, events, failed, first_run, call, runner>>

\* _execute_combine
ExecuteCombine(chunk) ==
    /\ graph[chunk].kind = "groupby_agg"
    /\ graph[chunk].stage = "combine"
    /\ ctx' = Store(ctx, chunk, CombineOutput(graph, ctx, chunk, op.groupby_params.sort))
    /\ UNCHANGED ExecFrame

\* _execute_agg
ExecuteAgg(chunk) ==
    /\ graph[chunk].kind = "groupby_agg"
    /\ graph[chunk].stage = "agg"
    /\ ctx' = Store(ctx, chunk, AggOutput(graph, ctx, chunk, op.groupby_params.sort))
    /\ UNCHANGED ExecFrame

\* The execution of the operands of the graph that are not aggregation operands.
ExecuteOther(chunk) ==
    /\ graph[chunk].kind # "groupby_agg"
    /\ ctx' = Store(ctx, chunk,
          CASE graph[chunk].kind = "concat" -> ConcatOutput(graph, ctx, chunk)
            [] graph[chunk].kind = "psrs_sample" -> SampleOutput(graph, ctx, chunk)
            [] graph[chunk].kind = "concat_pivot" -> PivotOutput(graph, ctx, chunk)
            [] graph[chunk].kind = "shuffle_proxy" -> ProxyOutput(graph, ctx, chunk)
            [] graph[chunk].stage = "reduce" -> ReduceOutput(graph, ctx, chunk)
            [] graph[chunk].kind = "sort_shuffle" -> SortShuffleMapOutput(graph, ctx, chunk)
            [] OTHER -> HashShuffleMapOutput(graph, ctx, chunk))
    /\ UNCHANGED ExecFrame

\* DataFrameGroupByAgg.execute, on the next chunk of the finished graph when it is an
\* aggregation operand: dispatch on the stage.
ExecuteAggregation ==
    \E chunk \in DOMAIN graph :
        /\ NextToRun(chunk)
        /\ \/ \E raw_size \in RawSizes, agg_size \in AggSizes :
                 /\ graph[chunk].stage = "map"
                 /\ raw_size = RawSizeOf(graph, chunk)
                 /\ agg_size \in AggSizesOf(graph, chunk)
                 /\ ExecuteMap(chunk, raw_size, agg_size)
           \/ ExecuteCombine(chunk)
           \/ ExecuteAgg(chunk)

ExecuteCollaborator ==
    \E chunk \in DOMAIN graph : NextToRun(chunk) /\ ExecuteOther(chunk)

NextExec ==
    \/ TileTree
    \/ TileShuffle
    \/ ExecuteAggregation
    \/ ExecuteCollaborator

SpecExec == InitExec /\ [][NextExec]_vars
\* ================================================= agg(): the call and the agg stage
\* What agg() can be given as method; "None" is Python's None.
MethodArgs == {"tree", "shuffle", "auto", "None", "hash"}
\* The requested function lists and the value columns of the grouped frame.
FuncLists == {<<"sum">>, <<"sum", "sum">>}
ValueColumns == <<"v", "w">>
\* The pandas releases the module can be imported under.
PandasReleases == {"1.0", "1.5", "2.2"}
\* How a mock aggregation can end, and the index of its result.
MockOutcomes == {"ok", "ValueError", "TypeError"}
MockIndexes == {"multi", "named", "plain"}

\* A check that lets every method through.
MethodAvailableAny(method) == TRUE

\* agg(), line 1335: method in ["shuffle", "tree", "auto"]
MethodAvailable(method) == method \in {"shuffle", "tree", "auto"}

\* agg(), lines 1333-1334: a method of None is 'auto'.
DefaultMethod(method) == IF method = "None" THEN "auto" ELSE method

\* _support_get_group_without_as_index, line 72: pd_release_version[:2] > (1, 0)
SupportGetGroupWithoutAsIndex(pandas) == pandas # "1.0"

\* PD_VERSION_GREATER_THAN_2_10 of dataframe/utils.py
PdVersionGreaterThan210(pandas) == pandas = "2.2"

\* agg_result.index.names = [None] * nlevels, line 156
StripNames(index) == IF index = "named" THEN "plain" ELSE index

\* A mock that retries whatever the pandas release is.
BuildMockAggResultAlwaysRetry(as_index, support, first, retry, index) ==
    IF first = "ok"
    THEN [error |-> "none", attempts |-> <<as_index>>, stripped |-> FALSE, index |-> index]
    ELSE IF first # "ValueError" \/ as_index
    THEN [error |-> first, attempts |-> <<as_index>>, stripped |-> FALSE, index |-> index]
    ELSE IF retry = "ok"
    THEN [error |-> "none", attempts |-> <<as_index, TRUE>>, stripped |-> TRUE,
          index |-> StripNames(index)]
    ELSE [error |-> retry, attempts |-> <<as_index, TRUE>>, stripped |-> FALSE,
          index |-> index]

\* build_mock_agg_result: the mock aggregation with the groupby's own as_index; a
\* ValueError is caught and, unless as_index is set or the pandas release is above
\* 1.0, the mock is run once more with as_index=True and the index names are
\* stripped.  attempts lists the as_index of each mock run; error is what is raised.
BuildMockAggResult(as_index, support, first, retry, index) ==
    IF first = "ok"
    THEN [error |-> "none", attempts |-> <<as_index>>, stripped |-> FALSE, index |-> index]
    ELSE IF first # "ValueError"
    THEN [error |-> first, attempts |-> <<as_index>>, stripped |-> FALSE, index |-> index]
    ELSE IF as_index \/ support
    THEN [error |-> first, attempts |-> <<as_index>>, stripped |-> FALSE, index |-> index]
    ELSE IF retry = "ok"
    THEN [error |-> "none", attempts |-> <<as_index, TRUE>>, stripped |-> TRUE,
          index |-> StripNames(index)]
    ELSE [error |-> retry, attempts |-> <<as_index, TRUE>>, stripped |-> FALSE,
          index |-> index]

\* _fix_as_index on the dict the operand's groupby_params refers to.
FixAsIndex(dict, result_index) ==
    IF result_index = "multi" THEN [dict EXCEPT !.as_index = TRUE]
    ELSE IF result_index = "named" THEN [dict EXCEPT !.as_index = TRUE]
    ELSE dict

\* len(pd_index.levels) of the index of a mock result grouped with as_index=True: one
\* level per key.
Levels(index, by) == IF index = "multi" THEN by.keys ELSE 1

\* Index levels read off the mock result's own index whatever as_index is.
GetIndexLevelsOfMockIndex(as_index, by, mock_index, mock_as_index) ==
    [error |-> "none", index_levels |-> Levels(mock_index, by)]

\* _get_index_levels: with as_index off (after _fix_as_index) the index is that of a
\* second mock aggregation built with as_index=True, and if that raises, len(by) for a
\* list by; with as_index on it is the mock result's index.
GetIndexLevels(as_index, by, mock_index, mock_as_index) ==
    IF ~as_index
    THEN IF mock_as_index = "ok"
         THEN [error |-> "none",
               index_levels |-> Levels(IF by.keys >= 2 THEN "multi" ELSE "named", by)]
         ELSE IF by.list
         THEN [error |-> "none", index_levels |-> by.keys]
         ELSE [error |-> mock_as_index, index_levels |-> NoValue]
    ELSE [error |-> "none", index_levels |-> Levels(mock_index, by)]

\* The arguments of a call of agg() and what pandas does with its mock runs.
CallArgs ==
    {a \in [is_groupby : BOOLEAN, method : MethodArgs, as_index : BOOLEAN,
            func : FuncLists, pandas : PandasReleases, mock_first : MockOutcomes,
            mock_retry : {"ok", "ValueError"}, mock_index : MockIndexes,
            \* by: a list of keys, or one key not in a list
            by : {[list |-> TRUE, keys |-> 1], [list |-> TRUE, keys |-> 2],
                  [list |-> FALSE, keys |-> 1]},
            mock_as_index : {"ok", "ValueError"}] :
        \* a multi-level result index has one level per key
        a.mock_index = "multi" => a.by.keys >= 2}

\* A call that has not started: no operand, no dict but the groupby's own
\* ("groupby"), no mock run, no result.
NewCall(args) ==
    [pc |-> "agg", args |-> args, error |-> "none", operands |-> 0, method |-> "None",
     dicts |-> [groupby |-> [by |-> "k", as_index |-> args.as_index, sort |-> TRUE,
                             level |-> NoLevel, selection |-> NoName],
                agg |-> [by |-> "k", as_index |-> args.as_index, sort |-> TRUE,
                         level |-> NoLevel, selection |-> NoName]],
     groupby_params |-> NoName, raw_groupby_params |-> NoName,
     attempts |-> <<>>, stripped |-> FALSE, result_index |-> "none",
     index_levels |-> NoValue, columns |-> <<>>, index_reset |-> FALSE]

InitCall ==
    /\ op \in {o \in ExecRequests : o.method = "tree" /\ o.combine_size = 2
                                    /\ o.groupby_params.sort}
    /\ in_chunks = 1
    /\ graph = SourceChunks(in_chunks)
    /\ out_chunks = <<>>
    /\ pc = "init"
    /\ path = "none"
    /\ yields = 0
    /\ probe_chunks = <<>>
    /\ recorder = NoRecorder
    /\ raw_sizes = <<>>
    /\ agg_sizes = <<>>
    /\ ctx = [c \in 1..in_chunks |-> <<>>]
    /\ events = <<>>
    /\ failed = {}
    /\ first_run = NoRun
    /\ call \in {NewCall(args) : args \in CallArgs}
    /\ runner = NoRunner

PlanningVars == <<op, in_chunks, graph, out_chunks, pc, path, yields, probe_chunks,
                  recorder, raw_sizes, agg_sizes, ctx, events, failed, first_run,
                  runner>>

\* agg() on aggregate functions: the type check, the method check, the operand with
\* groupby_params and raw_groupby_params both referring to the groupby's dict, then
\* the operand's __call__: the mock result, _fix_as_index, _get_index_levels, the
\* output tileable.
Agg ==
    /\ call.pc = "agg"
    /\ LET a == call.args
           method == DefaultMethod(a.method)
       IN IF ~a.is_groupby
          THEN call' = [call EXCEPT !.pc = "raised", !.error = "TypeError"]
          ELSE IF ~MethodAvailable(method)
          THEN call' = [call EXCEPT !.pc = "raised", !.error = "ValueError"]
          ELSE LET dict == call.dicts["groupby"]
                   m == BuildMockAggResult(dict.as_index,
                                           SupportGetGroupWithoutAsIndex(a.pandas),
                                           a.mock_first, a.mock_retry, a.mock_index)
                   made == [call EXCEPT !.operands = 1, !.method = method,
                                        !.groupby_params = "groupby",
                                        !.raw_groupby_params = "groupby",
                                        !.attempts = m.attempts,
                                        !.stripped = m.stripped]
                   fixed == FixAsIndex(dict, m.index)
                   levels == GetIndexLevels(fixed.as_index, a.by, m.index,
                                            a.mock_as_index)
               IN IF m.error # "none"
                  THEN call' = [made EXCEPT !.pc = "raised", !.error = m.error]
                  ELSE IF levels.error # "none"
                  THEN call' = [made EXCEPT !.pc = "raised", !.error = levels.error,
                                            !.result_index = m.index,
                                            !.dicts["groupby"] = fixed]
                  ELSE call' = [made EXCEPT !.pc = "tileable",
                                            !.result_index = m.index,
                                            !.dicts["groupby"] = fixed,
                                            !.index_levels = levels.index_levels]
    /\ UNCHANGED PlanningVars

\* tile() of the called operand up to the agg-stage operand it derives
\* (_build_out_tileable): the agg operand gets its own dict "agg".
TileAggStage ==
    /\ call.pc = "tileable"
    /\ LET d == AggOpParams(call.dicts[call.groupby_params], op.index_levels)
       IN call' = [call EXCEPT !.pc = "planned",
                               !.dicts[call.groupby_params] = d.planning,
                               !.dicts["agg"] = d.derived]
    /\ UNCHANGED PlanningVars

\* ------------------------------------------------- the result frame of the agg stage
\* A column of a frame: its label (one entry per level) and where its values come
\* from: <<k, v>> is value column v as the k-th requested function produced it.
Column(label, data) == [label |-> label, data |-> data]
NaN == <<0, "NaN">>
KeyColumn == Column(<<"k", "">>, <<0, "k">>)

\* The post functions ReductionCompiler.compile() returns: one per requested entry.
PostFuncs(func) == [k \in DOMAIN func |-> [func_name |-> func[k], output_key |-> k]]

\* The frame a post function returns: the value columns, one level of labels.
PostOutput(post) ==
    [i \in DOMAIN ValueColumns |->
        Column(<<ValueColumns[i]>>, <<post.output_key, ValueColumns[i]>>)]

\* out_chunk.columns_value: the columns of the mock result for a list of functions,
\* (v, f) for every value column v and every requested f, after the key column when
\* as_index=False took effect in the mock.
ColValue(func, key_column) ==
    (IF key_column THEN <<KeyColumn.label>> ELSE <<>>) \o
    [j \in 1..(Len(ValueColumns) * Len(func)) |->
        <<ValueColumns[((j - 1) \div Len(func)) + 1], func[((j - 1) % Len(func)) + 1]>>]

\* lines 1234-1246: col_value has more levels than agg_df.columns.
NewCols(agg_df, func_name) ==
    [i \in DOMAIN agg_df |-> Column(<<agg_df[i].label[1], func_name>>, agg_df[i].data)]

RECURSIVE ConcatOnColumns(_)
ConcatOnColumns(frames) ==
    IF frames = <<>> THEN <<>> ELSE Head(frames) \o ConcatOnColumns(Tail(frames))

IsUnique(labels) == \A i, j \in DOMAIN labels : i # j => labels[i] # labels[j]

RECURSIVE DropDuplicates(_)
DropDuplicates(labels) ==
    IF labels = <<>> THEN <<>>
    ELSE <<Head(labels)>> \o
         DropDuplicates(SelectSeq(Tail(labels), LAMBDA x : x # Head(labels)))

\* result[c]: every column labelled c.
SelectLabel(cols, c) == SelectSeq(cols, LAMBDA x : x.label = c)

\* result.iloc[:, result.columns.duplicated()]: the columns whose label an earlier
\* column has.
RECURSIVE DuplicatedOnly(_, _)
DuplicatedOnly(cols, i) ==
    IF i > Len(cols) THEN <<>>
    ELSE (IF \E j \in 1..(i - 1) : cols[j].label = cols[i].label
          THEN <<cols[i]>> ELSE <<>>) \o DuplicatedOnly(cols, i + 1)

\* result.reindex(col_value, axis=1)
Reindex(cols, labels) ==
    [i \in DOMAIN labels |->
        IF SelectLabel(cols, labels[i]) = <<>> THEN Column(labels[i], NaN)
        ELSE SelectLabel(cols, labels[i])[1]]

\* A reconciliation that reindexes by the distinct labels whatever col_value is.
ReconcileColumnsByReindex(result, col_value, gt_2_10) ==
    [columns |-> Reindex(result, DropDuplicates(col_value)), error |-> FALSE]

\* lines 1263-1275: with duplicated labels in col_value the columns are picked label
\* by label and relabelled with col_value, otherwise the result is reindexed.
ReconcileColumns(result, col_value, gt_2_10) ==
    IF ~IsUnique(col_value)
    THEN LET labels == IF gt_2_10 THEN DropDuplicates(col_value) ELSE col_value
             from == IF gt_2_10 THEN result ELSE DuplicatedOnly(result, 1)
             picked == ConcatOnColumns([i \in DOMAIN labels |-> SelectLabel(from, labels[i])])
         IN IF \/ \E i \in DOMAIN labels : SelectLabel(from, labels[i]) = <<>>
               \/ Len(picked) # Len(col_value)
            THEN [columns |-> <<>>, error |-> TRUE]
            ELSE [columns |-> [i \in DOMAIN picked |-> Column(col_value[i], picked[i].data)],
                  error |-> FALSE]
    ELSE [columns |-> Reindex(result, col_value), error |-> FALSE]

\* _execute_agg from line 1211 on, for a frame result: the post functions' frames
\* under two-level labels, side by side; reset_index when the agg operand's as_index
\* is off; then the reconciliation with col_value.
AggResult(func, agg_as_index, key_column, gt_2_10) ==
    LET post_funcs == PostFuncs(func)
        aggs == [k \in DOMAIN post_funcs |->
                    NewCols(PostOutput(post_funcs[k]), post_funcs[k].func_name)]
        col_value == ColValue(func, key_column)
        reset == ~agg_as_index
        result == (IF reset THEN <<KeyColumn>> ELSE <<>>) \o ConcatOnColumns(aggs)
        r == ReconcileColumns(result, col_value, gt_2_10)
    IN [columns |-> r.columns, index_reset |-> reset, error |-> r.error]

\* _execute_agg on the agg-stage chunk of the call.
ExecuteAggStage ==
    /\ call.pc = "planned"
    /\ LET a == call.args
           key_column == ~a.as_index /\ ~call.stripped /\ call.result_index = "plain"
           r == AggResult(a.func, call.dicts["agg"].as_index, key_column,
                          PdVersionGreaterThan210(a.pandas))
       IN call' = [call EXCEPT !.pc = IF r.error THEN "raised" ELSE "executed",
                               !.error = IF r.error THEN "KeyError" ELSE "none",
                               !.columns = r.columns,
                               !.index_reset = r.index_reset]
    /\ UNCHANGED PlanningVars

NextCall ==
    \/ Agg
    \/ TileAggStage
    \/ ExecuteAggStage

SpecCall == InitCall /\ [][NextCall]_vars

\* ================================================ a subtask runner of a worker
\* The chunks of the largest subtask a runner is given.
MaxSubtaskChunks == 3

\* A subtask: a chain of chunks (test_shuffle_subtask builds one of the first three
\* nodes of the shuffle plan over one input chunk), run in topological order.
Subtasks(id) == {[id |-> id, chunks |-> n] : n \in 1..MaxSubtaskChunks}
NoSubtask == [id |-> 0, chunks |-> 0]
\* What an operand of a subtask can raise (test_subtask_failure: a division by zero
\* under errstate(divide="raise")).
OperandErrors == {"FloatingPointError"}

\* SubtaskResult of a subtask that has not ended.
PendingResult(subtask) ==
    [subtask |-> subtask, status |-> "pending", error |-> "none"]

\* The runner actor as it is created, and after it is killed and restored.
NewRunner(runs) ==
    [slot |-> "numa-0", running_processor |-> NoSubtask,
     result |-> PendingResult(NoSubtask), executed |-> 0, raised |-> "none",
     cancelling |-> FALSE, runs |-> runs]

\* is_runner_free(): no processor is running in the slot.
IsRunnerFree(r) == r.running_processor = NoSubtask

\* A processor that reports every ended subtask as succeeded.
SubtaskStatusOfSucceeded(raised) == "succeeded"

\* The status a processor reports when execution ends: errored with the error when an
\* operand raised, succeeded otherwise.
SubtaskStatusOf(raised) == IF raised = "none" THEN "succeeded" ELSE "errored"

InitRunner ==
    /\ op \in {o \in ExecRequests : o.method = "shuffle" /\ o.combine_size = 2
                                    /\ o.groupby_params.sort}
    /\ in_chunks = 1
    /\ graph = SourceChunks(in_chunks)
    /\ out_chunks = <<>>
    /\ pc = "init"
    /\ path = "none"
    /\ yields = 0
    /\ probe_chunks = <<>>
    /\ recorder = NoRecorder
    /\ raw_sizes = <<>>
    /\ agg_sizes = <<>>
    /\ ctx = [c \in 1..in_chunks |-> <<>>]
    /\ events = <<>>
    /\ failed = {}
    /\ first_run = NoRun
    /\ call = NoCall
    /\ runner = NewRunner(0)

RunnerFrame == <<op, in_chunks, graph, out_chunks, pc, path, yields, probe_chunks,
                 recorder, raw_sizes, agg_sizes, ctx, events, failed, first_run, call>>

\* run_subtask(subtask) on a free runner: the subtask takes the slot and the reported
\* result is the pending result of the new subtask.
RunSubtask ==
    /\ IsRunnerFree(runner)
    /\ runner.runs < MaxRuns
    /\ \E subtask \in Subtasks(runner.runs + 1) :
          runner' = [runner EXCEPT !.running_processor = subtask,
                                   !.result = PendingResult(subtask),
                                   !.executed = 0, !.raised = "none",
                                   !.runs = @ + 1]
    /\ UNCHANGED RunnerFrame

\* The processor executes the next operand of the running subtask: it stores its
\* result, or it raises.
ExecuteOperand ==
    /\ ~IsRunnerFree(runner)
    /\ runner.raised = "none"
    /\ runner.executed < runner.running_processor.chunks
    /\ \/ runner' = [runner EXCEPT !.executed = @ + 1]
       \/ \E error \in OperandErrors : runner' = [runner EXCEPT !.raised = error]
    /\ UNCHANGED RunnerFrame

\* Execution has ended, by the last operand or by an error: the result is reported
\* and the slot is given back.
FinishSubtask ==
    /\ ~IsRunnerFree(runner)
    /\ \/ runner.raised # "none"
       \/ runner.executed = runner.running_processor.chunks
    /\ runner' = [runner EXCEPT !.result.status = SubtaskStatusOf(runner.raised),
                                !.result.error = runner.raised,
                                !.running_processor = NoSubtask,
                                !.cancelling = FALSE]
    /\ UNCHANGED RunnerFrame

\* cancel_subtask() while a subtask is running: the running task is asked to stop and
\* the call waits for it.
CancelSubtask ==
    /\ ~IsRunnerFree(runner)
    /\ ~runner.cancelling
    /\ runner' = [runner EXCEPT !.cancelling = TRUE]
    /\ UNCHANGED RunnerFrame

\* The running task has stopped on the cancel: the slot is given back.
SubtaskCancelled ==
    /\ ~IsRunnerFree(runner)
    /\ runner.cancelling
    /\ runner' = [runner EXCEPT !.result.status = "cancelled",
                                !.running_processor = NoSubtask,
                                !.cancelling = FALSE]
    /\ UNCHANGED RunnerFrame

\* The cancel timed out: the runner actor is killed and restored with a free slot.
KillActor ==
    /\ runner.cancelling
    /\ runner' = NewRunner(runner.runs)
    /\ UNCHANGED RunnerFrame

NextRunner ==
    \/ RunSubtask
    \/ ExecuteOperand
    \/ FinishSubtask
    \/ CancelSubtask
    \/ SubtaskCancelled
    \/ KillActor

SpecRunner == InitRunner /\ [][NextRunner]_vars

\* ------------------------------------------- executing operands step by step
\* One operand after another of a chain over one input chunk, each reading the
\* output of the operand before it, for agg_funcs lists of steps of every kind.
MaxSteps == 2

\* A ReductionAggStep: a predefined function (one output), or a custom reduction with
\* its output_limit.
StepLists ==
    LET StepKinds ==
            {[custom |-> FALSE, output_limit |-> 1], [custom |-> TRUE, output_limit |-> 1],
             [custom |-> TRUE, output_limit |-> 2]}
    IN UNION {[1..n -> StepKinds] : n \in 1..MaxSteps}

\* One entry of a stored tuple: the step that made it, the handler that ran, and the
\* positions of the input entries it was made from.
Entry(step, handler, of) == [step |-> step, handler |-> handler, of |-> of]

\* _pack_inputs: pos advances by the output_limit of every step; a predefined step
\* takes in_data[pos] (an IndexError past the end), a custom one the slice
\* in_data[pos : pos + output_limit] (cut at the end).
PackOffset(agg_funcs, i) == SumSeq([j \in 1..(i - 1) |-> agg_funcs[j].output_limit])
PackInputs(agg_funcs, len) ==
    LET pos(i) == PackOffset(agg_funcs, i)
        slice(i) == [k \in 1..(Min(pos(i) + agg_funcs[i].output_limit, len) - Min(pos(i), len))
                        |-> pos(i) + k]
    IN IF \E i \in DOMAIN agg_funcs : ~agg_funcs[i].custom /\ pos(i) + 1 > len
       THEN [error |-> "IndexError", dict |-> <<>>]
       ELSE [error |-> "none",
             dict |-> [i \in DOMAIN agg_funcs |->
                          IF agg_funcs[i].custom THEN slice(i) ELSE <<pos(i) + 1>>]]

\* _execute_map (no recorder attached): one entry for every step.
MapSteps(agg_funcs) ==
    [error |-> "none", out |-> [i \in DOMAIN agg_funcs |-> Entry(i, "_execute_map", <<>>)]]

\* _execute_combine: the loop runs over zip(input tuple, agg_funcs); a custom step is
\* given the input entry of its turn, a predefined one its packed input.
CombineSteps(agg_funcs, in_data) ==
    LET packed == PackInputs(agg_funcs, Len(in_data))
        turns == Min(Len(in_data), Len(agg_funcs))
    IN IF packed.error # "none"
       THEN [error |-> packed.error, out |-> <<>>]
       ELSE [error |-> "none",
             out |-> [i \in 1..turns |->
                         Entry(i, "_execute_combine",
                               IF agg_funcs[i].custom THEN <<i>> ELSE packed.dict[i])]]

\* _execute_agg: every step finalizes its packed input; post_funcs put the results of
\* the steps side by side in one result.
AggSteps(agg_funcs, in_data) ==
    LET packed == PackInputs(agg_funcs, Len(in_data))
    IN IF packed.error # "none"
       THEN [error |-> packed.error, out |-> <<>>]
       ELSE [error |-> "none",
             out |-> [i \in DOMAIN agg_funcs |-> Entry(i, "_execute_agg", packed.dict[i])]]

\* The handler execute picks for a stage.
HandlerOfAny(stage) == "_execute_agg"
HandlerOf(stage) ==
    CASE stage = "map" -> "_execute_map"
      [] stage = "combine" -> "_execute_combine"
      [] stage = "agg" -> "_execute_agg"
      [] OTHER -> "none"

InitSteps ==
    \* stages: the OperandStage of every operand of the chain, "None" for one left unset
    /\ op \in [agg_funcs : StepLists,
               stages : { <<"map">>, <<"map", "combine">>, <<"map", "agg">>,
                          <<"map", "combine", "agg">>,
                          <<"map", "combine", "combine", "agg">>, <<"map", "reduce">>,
                          <<"map", "None">>, <<"reduce">>, <<"None">> }]
    /\ in_chunks = 1
    /\ graph = SourceChunks(1)
    /\ out_chunks = <<>>
    /\ pc = "execute"
    /\ path = "none"
    /\ yields = 0
    /\ probe_chunks = <<>>
    /\ recorder = NoRecorder
    /\ raw_sizes = <<>>
    /\ agg_sizes = <<>>
    /\ ctx = [c \in {1} |-> <<Entry(0, "source", <<>>)>>]
    /\ events = <<>>
    /\ failed = {}
    /\ first_run = NoRun
    /\ call = NoCall
    /\ runner = NoRunner

\* How an execution ends: a raised error stores nothing.
EndExecute(chunk, handler, result) ==
    /\ events' = Append(events, [chunk |-> chunk, handler |-> handler,
                                 error |-> result.error])
    /\ IF result.error = "none"
       THEN ctx' = Store(ctx, chunk, result.out) /\ failed' = failed
       ELSE ctx' = ctx /\ failed' = failed \cup {chunk}
    /\ UNCHANGED <<op, in_chunks, graph, out_chunks, pc, path, yields, probe_chunks,
                   recorder, raw_sizes, agg_sizes, first_run, call, runner>>

\* DataFrameGroupByAgg.execute, on the operand the runtime runs next: operand k of
\* the chain is chunk k + 1 and reads chunk k; nothing runs after an operand that
\* raised.
Execute ==
    \E chunk \in 2..(Len(op.stages) + 1) :
        /\ pc = "execute"
        /\ failed = {}
        /\ chunk = Len(events) + 2
        /\ LET stage == op.stages[chunk - 1]
               handler == HandlerOf(stage)
           IN \/ /\ handler = "_execute_map"
                 /\ EndExecute(chunk, handler, MapSteps(op.agg_funcs))
              \/ /\ handler = "_execute_combine"
                 /\ EndExecute(chunk, handler, CombineSteps(op.agg_funcs, ctx[chunk - 1]))
              \/ /\ handler = "_execute_agg"
                 /\ EndExecute(chunk, handler, AggSteps(op.agg_funcs, ctx[chunk - 1]))
              \/ /\ handler = "none"
                 /\ EndExecute(chunk, handler, [error |-> "ValueError", out |-> <<>>])

NextSteps == Execute

SpecSteps == InitSteps /\ [][NextSteps]_vars

\* ------------------------------------------------------------ the sum reduction
\* DataFrameSum over frames of up to two columns of up to MaxValues cells, a cell
\* being a number or NaN.
MaxValues == 2
NotANumber == 0 - 1
Frames ==
    LET Cells == {NotANumber} \cup 1..2
        Columns == UNION {[1..n -> Cells] : n \in 0..MaxValues}
    IN UNION {[1..n -> Columns] : n \in 1..2}

\* pandas: the sum of a column (NaN cells skipped, or NaN when one is met with skipna
\* off).
PandasSum(column, skipna) ==
    IF ~skipna /\ \E i \in DOMAIN column : column[i] = NotANumber
    THEN NotANumber
    ELSE SumSeq(SelectSeq(column, LAMBDA v : v # NotANumber))

\* where_function(cond, var1, var2): var1 where cond holds, var2 elsewhere.
WhereFunction(cond, var1, var2) ==
    [k \in DOMAIN var1 |-> IF cond[k] THEN var1[k] ELSE var2]

\* DataFrameSum.is_atomic
IsAtomic(o) == o.min_count = 0

\* A callable that never looks at min_count.
SumCallablePlain(o, value) == [k \in DOMAIN value |-> PandasSum(value[k], o.skipna)]

\* The sum_ callable returned by DataFrameSum.get_reduction_callable.
SumCallable(o, value) ==
    LET sum == [k \in DOMAIN value |-> PandasSum(value[k], o.skipna)]
        \* value.count(): the cells that are not NaN
        count == [k \in DOMAIN value |->
                     Len(SelectSeq(value[k], LAMBDA v : v # NotANumber))]
    IN IF o.min_count = 0
       THEN sum
       ELSE WhereFunction([k \in DOMAIN value |-> count[k] >= o.min_count], sum,
                          NotANumber)

InitSum ==
    /\ op \in [min_count : 0..MaxValues, skipna : BOOLEAN]
    /\ in_chunks = 1
    /\ graph = SourceChunks(1)
    /\ out_chunks = <<>>
    /\ pc = "sum"
    /\ path = "none"
    /\ yields = 0
    /\ probe_chunks = <<>>
    /\ recorder = NoRecorder
    /\ raw_sizes = <<>>
    /\ agg_sizes = <<>>
    /\ ctx \in [{1} -> Frames]
    /\ events = <<>>
    /\ failed = {}
    /\ first_run = NoRun
    /\ call = NoCall
    /\ runner = NoRunner

\* A reader of the is_atomic property.
ReadIsAtomic ==
    /\ pc = "sum"
    /\ events = <<>>
    /\ events' = <<[e |-> "is_atomic", value |-> IsAtomic(op)]>>
    /\ UNCHANGED <<ctx, op, in_chunks, graph, out_chunks, pc, path, yields, probe_chunks,
                   recorder, raw_sizes, agg_sizes, failed, first_run, call, runner>>

\* get_reduction_callable and a call of sum_ on the value.
ApplySum ==
    /\ pc = "sum"
    /\ 2 \notin DOMAIN ctx
    /\ ctx' = Store(ctx, 2, SumCallable(op, ctx[1]))
    /\ UNCHANGED <<events, op, in_chunks, graph, out_chunks, pc, path, yields,
                   probe_chunks, recorder, raw_sizes, agg_sizes, failed, first_run,
                   call, runner>>

NextSum ==
    \/ ReadIsAtomic
    \/ ApplySum

SpecSum == InitSum /\ [][NextSum]_vars

\* ======================================================== reading the graph
Chunks == DOMAIN graph
StageChunks(stage) == {c \in Chunks : graph[c].stage = stage}
\* The aggregation operands (DataFrameGroupByAgg) of a stage.
AggOps(stage) == {c \in Chunks : graph[c].kind = "groupby_agg" /\ graph[c].stage = stage}
Range(s) == {s[i] : i \in DOMAIN s}
MaxOf(S) == IF S = {} THEN 0 ELSE CHOOSE x \in S : \A y \in S : y <= x

RECURSIVE Pow(_, _)
Pow(b, e) == IF e = 0 THEN 1 ELSE b * Pow(b, e - 1)

\* The number of combine-stage operands on the longest path from a source to c.
RECURSIVE Depth(_)
Depth(c) ==
    (IF graph[c].stage = "combine" THEN 1 ELSE 0)
    + MaxOf({Depth(i) : i \in Range(graph[c].inputs)})

\* The combine rounds a finished planning run performed.
Rounds == MaxOf({Depth(c) : c \in Chunks})

\* The number of chunks left after j rounds over n chunks.
RECURSIVE Remaining(_, _, _)
Remaining(n, combine_size, j) ==
    IF j = 0 THEN n
    ELSE LET m == Remaining(n, combine_size, j - 1)
         IN (m + combine_size - 1) \div combine_size

\* What a chunk reads, looking through a concatenation.
Feeds(c) ==
    LET i == graph[c].inputs[1]
    IN IF graph[i].kind = "concat" THEN Range(graph[i].inputs) ELSE {i}

\* The chunks that enter the shuffle: what the shuffle's map-side chunks read first.
ShuffleMaps == {c \in Chunks : graph[c].kind \in {"sort_shuffle", "groupby_shuffle"}
                               /\ graph[c].stage = "map"}
Entering == {graph[c].inputs[1] : c \in ShuffleMaps}
PivotChunks == {c \in Chunks : graph[c].kind = "concat_pivot"}

Probed == op.method = "auto" /\ in_chunks > op.combine_size
Finished == pc \in {"done", "error"}

\* The projected concatenated size after j rounds, against chunk_store_limit / 4:
\* mean(agg_sizes) * combine_size^j  <  (or <=, >)  chunk_store_limit / 4.
ProjUnder(j) ==
    4 * SumSeq(agg_sizes) * Pow(op.combine_size, j) < op.chunk_store_limit * Len(agg_sizes)
ProjOver(j) ==
    4 * SumSeq(agg_sizes) * Pow(op.combine_size, j) > op.chunk_store_limit * Len(agg_sizes)

C2_TreeHasOneAggChunk ==
    (pc = "done" /\ path = "tree") =>
        /\ Len(out_chunks) = 1
        /\ graph[out_chunks[1]].kind = "groupby_agg"
        /\ graph[out_chunks[1]].stage = "agg"
        /\ AggOps("agg") = {out_chunks[1]}

C2_Witness ==
    /\ pc = "done"
    /\ op.method = "tree"
    /\ in_chunks > op.combine_size * op.combine_size
    /\ Len(out_chunks) = 1

\* C4: 3 input chunks, method 'tree', combine_size 2: exactly 2 combine-stage chunks
\* from one combine round, then exactly 1 agg-stage chunk, which reads both.
C4_ScenarioA ==
    (op.method = "tree" /\ in_chunks = 3 /\ op.combine_size = 2 /\ pc = "done") =>
        /\ Cardinality(AggOps("combine")) = 2
        /\ Rounds = 1
        /\ Cardinality(AggOps("agg")) = 1
        /\ \A a \in AggOps("agg") :
              /\ Feeds(a) = AggOps("combine")
              /\ \A c \in AggOps("combine") : c < a

C4_Witness ==
    /\ op.method = "tree" /\ in_chunks = 3 /\ op.combine_size = 2 /\ pc = "done"
    /\ Cardinality(AggOps("combine")) = 2

\* C5 (as claimed): after the probe a further combine round is done exactly while
\* the projected size is under chunk_store_limit / 4 and more than combine_size
\* chunks remain; then shuffle over the partially combined chunks is chosen if and
\* only if the projected size exceeds chunk_store_limit / 4, and tree otherwise.
C5_RoundsThenChoice ==
    (Probed /\ Finished) =>
        /\ \A j \in 0..(Rounds - 1) :
              ProjUnder(j) /\ Remaining(in_chunks, op.combine_size, j) > op.combine_size
        /\ ~(ProjUnder(Rounds)
             /\ Remaining(in_chunks, op.combine_size, Rounds) > op.combine_size)
        /\ (path = "shuffle") <=> ProjOver(Rounds)
        /\ (path = "tree") <=> ~ProjOver(Rounds)
        /\ (path = "shuffle") =>
              /\ Cardinality(Entering) = Remaining(in_chunks, op.combine_size, Rounds)
              /\ \A c \in Entering : Depth(c) = Rounds

\* What the source does hold to: the same statement for a mean recorded size above 0.
C5_HoldsForPositiveSizes ==
    SumSeq(agg_sizes) > 0 => C5_RoundsThenChoice

\* C6 (as claimed): every planning run with method 'auto' ends with a graph built by
\* exactly one of the tree path or the shuffle path, whatever the recorder returned,
\* and no chunk of it has a stage other than map, combine, reduce or agg.
C6_AutoEndsWithTreeOrShuffle ==
    (op.method = "auto" /\ Finished) =>
        /\ pc = "done"
        /\ path \in {"tree", "shuffle"}
        /\ out_chunks # <<>>
        /\ (path = "tree") <=> (StageChunks("reduce") = {})
        /\ \A c \in Chunks : graph[c].stage \in {"map", "combine", "reduce", "agg", "none"}

\* C7 (as claimed): when the auto path commits to tree after probing, the number of
\* surviving combined chunks times the projected per-chunk size is at most
\* chunk_store_limit / 4.
C7_FinalAggInputUnderLimit ==
    (Probed /\ pc = "done" /\ path = "tree") =>
        4 * Cardinality(Feeds(out_chunks[1])) * SumSeq(agg_sizes)
              * Pow(op.combine_size, Rounds)
           <= op.chunk_store_limit * Len(agg_sizes)

\* C7 (amended): when the auto path commits to tree after probing, the projected size
\* of each surviving combined chunk (the mean recorded aggregated size times
\* combine_size per completed round) is at most chunk_store_limit / 4.
C7_SurvivingChunkUnderLimit ==
    (Probed /\ pc = "done" /\ path = "tree") =>
        /\ 4 * SumSeq(agg_sizes) * Pow(op.combine_size, Rounds)
              <= op.chunk_store_limit * Len(agg_sizes)
        /\ \A c \in Feeds(out_chunks[1]) : Depth(c) = Rounds

C7_Witness ==
    /\ Probed /\ pc = "done" /\ path = "tree"
    /\ Rounds >= 1
    /\ Cardinality(Feeds(out_chunks[1])) >= 2

\* C9 (as claimed): in a sorted shuffle plan over n > 1 map-stage chunks the pivot
\* chunk holds n - 1 boundary values.
C9_PivotHoldsNMinusOne ==
    (pc = "done" /\ op.method = "shuffle" /\ op.groupby_params.sort /\ in_chunks > 1) =>
        /\ Cardinality(PivotChunks) = 1
        /\ \A v \in PivotChunks : graph[v].shape0 = Cardinality(AggOps("map")) - 1

EventsOf(name) == SelectSeq(events, LAMBDA v : v.name = name)
Kinds(s) == [i \in DOMAIN s |-> s[i].e]
Creates == {k \in DOMAIN events : events[k].e = "create"}

\* C12: in every auto planning run that probes, the recorder is created under a name
\* no earlier recorder had, then the probe chunks record, then the planner reads it
\* exactly once with get, then it is destroyed with no planning step between the get
\* and the destroy; no record and no get happens after the destroy.
C12_RecorderEventOrder ==
    /\ \A i, j \in Creates : i # j => events[i].name # events[j].name
    /\ \A k \in DOMAIN events :
          /\ events[k].e = "get" =>
                /\ k + 1 \in DOMAIN events
                /\ events[k + 1].e = "destroy"
                /\ events[k + 1].name = events[k].name
          /\ events[k].e = "plan" => k > 1 /\ events[k - 1].e = "destroy"
    /\ \A c \in Creates :
          LET s == Kinds(EventsOf(events[c].name))
              n == Len(s)
          IN /\ s[1] = "create"
             /\ \A i \in 2..n :
                   \/ s[i] = "record" /\ \A j \in 2..i : s[j] = "record"
                   \/ s[i] = "get" /\ i = n - 1
                   \/ s[i] = "destroy" /\ i = n /\ s[n - 1] = "get"
    /\ (Probed /\ Finished) =>
          LET v == EventsOf(recorder.name)
          IN /\ Kinds(v) = <<"create">> \o [i \in 1..op.combine_size |-> "record"]
                              \o <<"get", "destroy">>
             /\ {v[i].chunk : i \in 2..(op.combine_size + 1)} = Range(probe_chunks)
             /\ ~recorder.alive
    /\ (Probed /\ pc \in {"probe", "cancelled"}) =>
          /\ recorder.alive
          /\ \A i \in DOMAIN EventsOf(recorder.name) :
                EventsOf(recorder.name)[i].e \in {"create", "record"}

C12_Witness ==
    /\ Probed /\ Finished /\ first_run.ran
    /\ Cardinality(Creates) = 2
    /\ Cardinality({k \in DOMAIN events : events[k].e = "destroy"}) = 2

\* C13 (as claimed): when planning is cancelled while suspended at the probe, the
\* Size Recorder created for that run is discarded.  Nothing of the planner runs
\* after a cancellation, so a recorder that is alive then is never destroyed.
C13_CancelDiscardsRecorder ==
    (pc = "cancelled") => ~recorder.alive

\* C14 (as claimed): every map-stage chunk of the final chunk graph can be executed
\* again at any time after planning has completed and finishes without error; the
\* probe chunks reused in the final auto graph do not depend on the destroyed recorder.
C14_FinalMapChunksRunAgain ==
    (pc = "done") =>
        \A c \in AggOps("map") : c \notin failed

\* The record calls made on the recorder of a name, in the order they were made.
RecordsOf(name) == SelectSeq(events, LAMBDA v : v.name = name /\ v.e = "record")

\* The aggregated sizes the probe chunks recorded, in the order of the probe chunks
\* instead of the order of the calls.
InChunkOrder ==
    [i \in DOMAIN probe_chunks |->
        LET v == RecordsOf(recorder.name)
        IN v[CHOOSE k \in DOMAIN v : v[k].chunk = probe_chunks[i]].agg]

\* What the planner decides from the graph as the probe left it and a list of sizes.
DecisionFor(sizes) ==
    BuildTreeAndShuffleChunks(SubSeq(graph, 1, in_chunks + op.combine_size),
                              in_chunks, op, probe_chunks, sizes)

\* C15: the tree-or-shuffle decision of an auto run is the same for every order in
\* which the probe chunks call record, and once all have recorded, get returns two
\* lists of equal length whose position i comes from the i-th record call.
C15_DecisionIgnoresRecordOrder ==
    /\ recorder.alive =>
          LET v == RecordsOf(recorder.name)
          IN /\ Len(Get(recorder)[1]) = Len(v)
             /\ Len(Get(recorder)[2]) = Len(v)
             /\ \A i \in DOMAIN v :
                   /\ Get(recorder)[1][i] = v[i].raw
                   /\ Get(recorder)[2][i] = v[i].agg
    /\ (Probed /\ Finished) =>
          LET v == RecordsOf(recorder.name)
          IN /\ Len(raw_sizes) = op.combine_size
             /\ Len(agg_sizes) = op.combine_size
             /\ \A i \in DOMAIN v :
                   raw_sizes[i] = v[i].raw /\ agg_sizes[i] = v[i].agg
             /\ path = DecisionFor(InChunkOrder).path
             /\ (pc = "done") = DecisionFor(InChunkOrder).ok
             /\ StageSequence(graph) = StageSequence(DecisionFor(InChunkOrder).g)

C15_Witness ==
    /\ Probed /\ pc = "done" /\ path = "shuffle"
    /\ op.combine_size = 3
    /\ agg_sizes # InChunkOrder
    /\ raw_sizes[1] > raw_sizes[2]

\* C16: deriving map-, combine- and agg-stage operands never changes the planning
\* operand's own groupby_params: over every step in which the builders derive
\* operands, its by, as_index, sort, level and selection entries stay what they were.
C16_PlanningParamsUntouched ==
    [][/\ op'.groupby_params.by = op.groupby_params.by
       /\ op'.groupby_params.as_index = op.groupby_params.as_index
       /\ op'.groupby_params.sort = op.groupby_params.sort
       /\ op'.groupby_params.level = op.groupby_params.level
       /\ op'.groupby_params.selection = op.groupby_params.selection]_vars

C16_Witness ==
    /\ pc = "done" /\ path = "shuffle" /\ Probed
    /\ AggOps("map") # {} /\ AggOps("combine") # {} /\ AggOps("agg") # {}
    /\ MapOpParams(op.groupby_params).derived.as_index
    /\ ShuffleAggOpParams(op.groupby_params, op.index_levels).derived.level = <<0>>
    /\ CombineOpParams(op.groupby_params, op.index_levels).derived.by = NoName

\* C21 (as claimed): with method 'auto' the plan uses the shuffle method when the
\* session runs in distributed mode and the tree method when it runs in local mode.
C21_AutoFollowsMode ==
    (op.method = "auto" /\ pc = "done") =>
        /\ op.mode = "distributed" => path = "shuffle"
        /\ op.mode = "local" => path = "tree"

\* C22: in the chunk graph planned with method 'shuffle' over a single input chunk
\* the first three nodes of every topological order are the source chunk, the
\* map-stage aggregation chunk that reads it and the shuffle map chunk that reads
\* that one, and the operand of the third has stage map; every later node depends on
\* the third or on a node after it.
C22_SingleChunkShuffleStartsWithChain ==
    (op.method = "shuffle" /\ in_chunks = 1 /\ pc = "done") =>
        /\ Len(graph) >= 3
        /\ graph[1].kind = "source" /\ graph[1].inputs = <<>>
        /\ graph[2].kind = "groupby_agg" /\ graph[2].stage = "map"
        /\ graph[2].inputs = <<1>>
        /\ graph[3].kind = "groupby_shuffle" /\ graph[3].inputs = <<2>>
        /\ graph[3].stage = "map"
        /\ \A c \in 4..Len(graph) :
              /\ graph[c].inputs # <<>>
              /\ \A i \in Range(graph[c].inputs) : i >= 3

C22_Witness ==
    /\ op.method = "shuffle" /\ in_chunks = 1 /\ pc = "done"
    /\ op.groupby_params.sort
    /\ Len(graph) = 6
    /\ graph[3].stage = "map"

\* The chunks the tree combine loop left: what the agg-stage chunk of a tree plan reads.
Left == Feeds(out_chunks[1])

\* C24 (as claimed): with no byte-size ceiling supplied the tree combine loop keeps
\* running rounds until at most one chunk remains, for every number of input chunks
\* and every combine_size.
C24_TreeRunsToOneChunk ==
    (op.method = "tree" /\ pc = "done") => Cardinality(Left) <= 1

\* C24 (amended): with no byte-size ceiling supplied the tree combine loop runs a
\* round exactly while more than combine_size chunks remain: it ends with at most
\* combine_size chunks, after the least number of rounds that gets there.
C24_TreeRunsToCombineSize ==
    (op.method = "tree" /\ pc = "done") =>
        /\ Cardinality(Left) <= op.combine_size
        /\ Cardinality(Left) = Remaining(in_chunks, op.combine_size, Rounds)
        /\ \A j \in 0..(Rounds - 1) :
              Remaining(in_chunks, op.combine_size, j) > op.combine_size
        /\ \A c \in Left : Depth(c) = Rounds

C24_Witness ==
    /\ op.method = "tree" /\ pc = "done"
    /\ in_chunks = MaxChunks
    /\ op.combine_size = 2
    /\ Rounds = 2
    /\ Cardinality(Left) = 2

\* The aggregation chunks a combine round left: round 0 is the map stage.  A round's
\* chunks in the order the round made them.
RoundChunks(d) ==
    {c \in AggOps("map") \cup AggOps("combine") : Depth(c) = d}
RoundList(d) == SortedKeys(RoundChunks(d))

\* C25: every tree combine round over m chunks splits them by position into
\* ceil(m / combine_size) batches, batch i holding positions i * combine_size up to
\* (i + 1) * combine_size - 1; every chunk of the round is in exactly one batch, each
\* batch gives exactly one combine-stage chunk, and a batch of one chunk is read by
\* its combine chunk directly, with no concatenation between them.
C25_RoundBatchesByPosition ==
    \A d \in 1..Rounds :
        LET ins == RoundList(d - 1)
            outs == RoundList(d)
            m == Len(ins)
            combine_size == op.combine_size
        IN /\ Len(outs) = (m + combine_size - 1) \div combine_size
           /\ \A b \in DOMAIN outs :
                 LET first == (b - 1) * combine_size + 1
                     last == Min(b * combine_size, m)
                     read == graph[outs[b]].inputs
                 IN /\ graph[outs[b]].stage = "combine"
                    /\ graph[outs[b]].index = b - 1
                    /\ Len(read) = 1
                    /\ IF first = last
                       THEN read = <<ins[first]>>
                       ELSE /\ graph[read[1]].kind = "concat"
                            /\ graph[read[1]].inputs = SubSeq(ins, first, last)
           /\ \A k \in DOMAIN ins :
                 Cardinality({b \in DOMAIN outs : ins[k] \in Feeds(outs[b])}) = 1
           /\ Cardinality({c \in Chunks : graph[c].kind = "concat"
                              /\ \E k \in DOMAIN ins : ins[k] \in Range(graph[c].inputs)})
                 = m \div combine_size + (IF m % combine_size > 1 THEN 1 ELSE 0)

C25_Witness ==
    /\ pc = "done" /\ Probed /\ path = "shuffle"
    /\ Rounds = 2
    /\ Len(RoundList(0)) = 5
    /\ Len(RoundList(1)) = 3
    /\ graph[RoundList(1)[3]].inputs = <<RoundList(0)[5]>>
    /\ graph[graph[RoundList(2)[1]].inputs[1]].kind = "concat"

\* The stages of the aggregation operands along every path from a source chunk to c,
\* one sequence per path.
RECURSIVE PathStages(_)
PathStages(c) ==
    LET own == IF graph[c].kind = "groupby_agg" THEN <<graph[c].stage>> ELSE <<>>
    IN IF graph[c].inputs = <<>> THEN {own}
       ELSE UNION {{s \o own : s \in PathStages(i)} : i \in Range(graph[c].inputs)}

\* C26: in every chunk graph the planner returns, along every path from a source
\* chunk to an output chunk the aggregation operands come in the order one map, then
\* zero or more combine, then one agg; every output chunk is an agg-stage aggregation
\* operand; there are combine-stage operands only when tree combining ran, that is
\* never with method 'shuffle' and never with no more input chunks than combine_size.
C26_StagesInOrderOnEveryPath ==
    (pc = "done") =>
        /\ \A o \in Range(out_chunks) :
              /\ graph[o].kind = "groupby_agg"
              /\ graph[o].stage = "agg"
              /\ \A s \in PathStages(o) :
                    /\ Len(s) >= 2
                    /\ s[1] = "map"
                    /\ s[Len(s)] = "agg"
                    /\ \A k \in 2..(Len(s) - 1) : s[k] = "combine"
                    /\ Len(s) = Rounds + 2
        /\ \A c \in Chunks : graph[c].kind = "groupby_agg" =>
              graph[c].stage \in {"map", "combine", "agg"}
        /\ AggOps("agg") = Range(out_chunks)
        /\ (op.method = "shuffle" \/ in_chunks <= op.combine_size) =>
              AggOps("combine") = {}

C26_Witness ==
    /\ pc = "done" /\ Probed /\ path = "shuffle"
    /\ PivotChunks # {}
    /\ <<"map", "combine", "combine", "agg">> \in PathStages(out_chunks[1])

\* The map-side partitioning chunks of a sorted shuffle.
PartitionMaps == {c \in ShuffleMaps : graph[c].kind = "sort_shuffle"}

\* C27 (as claimed): in every sorted shuffle plan each map-side partitioning chunk is
\* declared to split its input into as many buckets as there are reducers: its
\* shuffle_size equals its n_partition, equals the number of chunks entering the
\* shuffle, equals the n_reducers of every reduce chunk, also when auto escalates to
\* shuffle after one or more tree combine rounds.
C27_BucketsMatchReducers ==
    (pc = "done" /\ path = "shuffle" /\ PivotChunks # {}) =>
        \A m \in PartitionMaps :
            /\ graph[m].shuffle_size = graph[m].n_partition
            /\ graph[m].n_partition = Cardinality(Entering)
            /\ \A r \in StageChunks("reduce") :
                  graph[r].n_reducers = graph[m].shuffle_size

\* The chunks of a kind.
KindChunks(kind) == {c \in Chunks : graph[c].kind = kind}

\* C28: _perform_shuffle builds the pivot topology (sample chunks, one pivot chunk,
\* sort-shuffle map and reduce chunks) exactly when sort is requested and the input
\* has more than one chunk, and the shuffle topology with no pivot whenever the input
\* has one chunk or sort is not requested; in both, every reduce chunk is read by one
\* agg-stage aggregation chunk of the same make.
C28_PivotExactlyWhenSortedAndSplit ==
    (pc = "done" /\ path = "shuffle") =>
        /\ IF op.groupby_params.sort /\ in_chunks > 1
           THEN /\ Cardinality(KindChunks("psrs_sample")) = Cardinality(Entering)
                /\ Cardinality(KindChunks("concat_pivot")) = 1
                /\ KindChunks("groupby_shuffle") = {}
                /\ \A c \in ShuffleMaps \cup StageChunks("reduce") :
                      graph[c].kind = "sort_shuffle"
           ELSE /\ KindChunks("psrs_sample") = {}
                /\ KindChunks("concat_pivot") = {}
                /\ KindChunks("sort_shuffle") = {}
                /\ \A c \in ShuffleMaps \cup StageChunks("reduce") :
                      graph[c].kind = "groupby_shuffle"
        /\ ShuffleMaps # {}
        /\ Cardinality(KindChunks("shuffle_proxy")) = 1
        /\ \A r \in StageChunks("reduce") :
              \E a \in Range(out_chunks) :
                 /\ graph[a].inputs = <<r>>
                 /\ graph[a] = [Chunk("groupby_agg", "agg", <<r>>, graph[r].index)
                                   EXCEPT !.inputs = <<r>>]

C28_Witness ==
    /\ pc = "done" /\ path = "shuffle" /\ Probed
    /\ ~op.groupby_params.sort
    /\ Rounds >= 1
    /\ KindChunks("concat_pivot") = {}
    /\ Cardinality(KindChunks("groupby_shuffle")) = 2 * Cardinality(Entering)

\* The edges of a shuffle plan whose shuffle is entered by the chunks of from.
ShuffleEdges(from) ==
    /\ \A m \in AggOps("map") :
          LET ins == graph[m].inputs
          IN /\ graph[ins[1]].kind = "source"
             /\ Len(ins) = IF op.groupby_params.by = "series" THEN 2 ELSE 1
             /\ \A k \in 2..Len(ins) :
                   /\ graph[ins[k]].kind = "by_source"
                   /\ graph[ins[k]].index = graph[ins[1]].index
    /\ \A s \in KindChunks("psrs_sample") :
          Len(graph[s].inputs) = 1 /\ graph[s].inputs[1] \in from
    /\ \A v \in KindChunks("concat_pivot") :
          /\ Range(graph[v].inputs) = KindChunks("psrs_sample")
          /\ Len(graph[v].inputs) = Cardinality(KindChunks("psrs_sample"))
    /\ \A m \in ShuffleMaps :
          /\ graph[m].inputs[1] \in from
          /\ IF graph[m].kind = "sort_shuffle"
             THEN /\ Len(graph[m].inputs) = 2
                  /\ graph[m].inputs[2] \in KindChunks("concat_pivot")
             ELSE Len(graph[m].inputs) = 1
    /\ \A e \in from :
          /\ Cardinality({m \in ShuffleMaps : graph[m].inputs[1] = e}) = 1
          /\ KindChunks("concat_pivot") # {} =>
                Cardinality({s \in KindChunks("psrs_sample") :
                                graph[s].inputs[1] = e}) = 1
    /\ \A x \in KindChunks("shuffle_proxy") :
          /\ Range(graph[x].inputs) = ShuffleMaps
          /\ Len(graph[x].inputs) = Cardinality(ShuffleMaps)
    /\ \A r \in StageChunks("reduce") :
          Len(graph[r].inputs) = 1 /\ graph[r].inputs[1] \in KindChunks("shuffle_proxy")
    /\ \A a \in AggOps("agg") :
          Len(graph[a].inputs) = 1 /\ graph[a].inputs[1] \in StageChunks("reduce")

\* C29 (as claimed): in every shuffle plan each aggregation map chunk depends only on
\* its source chunk and the matching chunks of the key series; each sample chunk
\* depends on one aggregation map chunk, the pivot chunk on all sample chunks, each
\* partitioning map chunk on one aggregation map chunk and the pivot chunk; the proxy
\* chunk depends on all partitioning map chunks, each reduce chunk on the proxy chunk
\* only, each agg chunk on exactly one reduce chunk.
C29_ShuffleReadsMapChunks ==
    (pc = "done" /\ path = "shuffle") =>
        \A from \in {AggOps("map")} : ShuffleEdges(from)

\* C29 (amended): the same edges, with the sample chunks and the partitioning map
\* chunks each depending on one chunk entering the shuffle: an aggregation map chunk
\* when no tree round ran, a combine chunk of the last round when auto escalated to
\* shuffle after tree rounds.
C29_ShuffleReadsEnteringChunks ==
    (pc = "done" /\ path = "shuffle") =>
        \A rounds \in {Rounds} : \A from \in {RoundChunks(rounds)} :
            /\ ShuffleEdges(from)
            /\ rounds = 0 => from = AggOps("map")
            /\ rounds > 0 => from \subseteq AggOps("combine")
            /\ op.method = "shuffle" => rounds = 0

C29_Witness ==
    /\ pc = "done" /\ path = "shuffle" /\ Probed
    /\ op.groupby_params.by = "series"
    /\ Rounds >= 1
    /\ KindChunks("concat_pivot") # {}
    /\ \A m \in AggOps("map") : Len(graph[m].inputs) = 2

\* The groupby_params of the operand of an aggregation chunk: the dict the builder
\* that made the chunk derived from the planning operand's.
OperandParams(c) ==
    LET p == op.groupby_params
    IN CASE graph[c].stage = "map" -> MapOpParams(p).derived
         [] graph[c].stage = "combine" -> CombineOpParams(p, op.index_levels).derived
         [] graph[c].stage = "agg" /\ graph[graph[c].inputs[1]].stage = "reduce" ->
               ShuffleAggOpParams(p, op.index_levels).derived
         [] OTHER -> AggOpParams(p, op.index_levels).derived

\* C30: every combine-stage and agg-stage operand the planner creates has
\* groupby_params with no by and no selection entry and with level equal to
\* [0, ..., index_levels - 1]; every map-stage aggregation operand has as_index True
\* and keeps the by of the request.
C30_DerivedParamsByStage ==
    /\ \A c \in AggOps("combine") \cup AggOps("agg") :
          /\ OperandParams(c).by = NoName
          /\ OperandParams(c).selection = NoName
          /\ Len(OperandParams(c).level) = op.index_levels
          /\ \A i \in 1..op.index_levels : OperandParams(c).level[i] = i - 1
    /\ \A m \in AggOps("map") :
          /\ OperandParams(m).as_index = TRUE
          /\ OperandParams(m).by = op.groupby_params.by
          /\ OperandParams(m).by # NoName

C30_Witness ==
    /\ pc = "done" /\ Probed /\ path = "shuffle"
    /\ op.index_levels = 2
    /\ ~op.groupby_params.as_index
    /\ \E c \in AggOps("combine") : OperandParams(c).level = <<0, 1>>
    /\ \E a \in AggOps("agg") : OperandParams(a).level = <<0, 1>>
    /\ \E m \in AggOps("map") : OperandParams(m).as_index

\* C31: an auto planning run with more input chunks than combine_size yields exactly
\* combine_size probe chunks, the map-stage chunks of the first combine_size input
\* chunks, each carrying the recorder's name; after the planner resumes, the final
\* graph has exactly one map-stage aggregation chunk per input chunk, and the one of
\* each of the first combine_size inputs is the probe chunk, not a new chunk.
C31_ProbeChunksReused ==
    /\ (Probed /\ pc # "init") =>
          /\ yields = 1
          /\ Len(probe_chunks) = op.combine_size
          /\ recorder.name # NoName
          /\ \A i \in DOMAIN probe_chunks :
                /\ graph[probe_chunks[i]].kind = "groupby_agg"
                /\ graph[probe_chunks[i]].stage = "map"
                /\ graph[probe_chunks[i]].inputs = <<i>>
                /\ graph[probe_chunks[i]].size_recorder_name = recorder.name
          /\ {c \in Chunks : graph[c].size_recorder_name # NoName} = Range(probe_chunks)
    /\ (Probed /\ pc = "probe") => AggOps("map") = Range(probe_chunks)
    /\ (Probed /\ pc = "done") =>
          /\ Cardinality(AggOps("map")) = in_chunks
          /\ \A i \in 1..in_chunks :
                Cardinality({m \in AggOps("map") : graph[m].inputs[1] = i}) = 1
          /\ Range(probe_chunks) \subseteq AggOps("map")
          /\ \A m \in AggOps("map") :
                graph[m].inputs[1] <= op.combine_size => m \in Range(probe_chunks)

C31_Witness ==
    /\ Probed /\ pc = "done" /\ path = "tree"
    /\ op.combine_size = 3
    /\ in_chunks = 5
    /\ Cardinality(AggOps("map") \ Range(probe_chunks)) = 2

\* The record calls a chunk's executions made, on any recorder.
RecordCallsOf(c) == SelectSeq(events, LAMBDA v : v.e = "record" /\ v.chunk = c)

\* C32: an execution of a map-stage operand that stores its output has called record
\* on the Size Recorder of the attached name exactly once before the store when a
\* name is attached, and no execution calls record when none is attached; apart from
\* the record call an execution writes only its own output key in the execution
\* context, and an execution that raises records nothing and stores nothing.
C32_MapRecordsOnceThenStores ==
    /\ \A c \in AggOps("map") :
          IF graph[c].size_recorder_name = NoName
          THEN RecordCallsOf(c) = <<>>
          ELSE /\ c \in DOMAIN ctx <=> Len(RecordCallsOf(c)) = 1
               /\ Len(RecordCallsOf(c)) <= 1
               /\ \A k \in DOMAIN events :
                     (events[k].e = "record" /\ events[k].chunk = c) =>
                        events[k].name = graph[c].size_recorder_name
    /\ \A k \in DOMAIN events :
          events[k].e = "record" => events[k].chunk \in AggOps("map")
    /\ DOMAIN ctx \subseteq (1..in_chunks) \cup AggOps("map")

C32_Witness ==
    /\ pc = "done" /\ Probed
    /\ failed # {}
    /\ \E c \in AggOps("map") :
          graph[c].size_recorder_name = NoName /\ c \in DOMAIN ctx
    /\ \A c \in Range(probe_chunks) : Len(RecordCallsOf(c)) = 1

\* C33 (as claimed): building the tree never mutates a chunk that already exists:
\* every map chunk still has the grid position it was created with (the row position
\* of its input chunk) and every combine chunk of a round still has the position it
\* was created with (its place in the round).
C33_TreeLeavesIndexesAlone ==
    /\ \A m \in AggOps("map") :
          graph[m].index = graph[graph[m].inputs[1]].index
    /\ \A d \in 1..Rounds :
          \A b \in DOMAIN RoundList(d) : graph[RoundList(d)[b]].index = b - 1

\* C36 (as claimed): with a ceiling and a size estimate supplied, _build_tree_chunks
\* returns the chunk list together with the projected size for every estimate, an
\* estimate of 0 included, so the two-value unpacking of the auto path succeeds and
\* planning completes on the tree or the shuffle path.
C36_PairForEveryEstimate ==
    \A estimate \in {SumSeq(agg_sizes)} :
        (Probed /\ Finished /\ estimate >= 0) =>
            /\ pc = "done"
            /\ estimate = 0 => path = "tree"

\* C37: the tree combine loop terminates for every number n >= 1 of chunks and every
\* combine_size >= 2, with a byte-size ceiling (method auto) or without one (method
\* tree): a round is run only on more than combine_size chunks and leaves strictly
\* fewer chunks than it was given, and at the exit of the loop at least one chunk and
\* at most max(n, combine_size) chunks remain.
C37_TreeLoopTerminates ==
    (op.method \in {"tree", "auto"} /\ pc = "done") =>
        /\ in_chunks >= 1 /\ op.combine_size >= 2
        /\ Rounds <= in_chunks
        /\ \A d \in 1..Rounds :
              /\ Cardinality(RoundChunks(d - 1)) > op.combine_size
              /\ Cardinality(RoundChunks(d)) < Cardinality(RoundChunks(d - 1))
        /\ \A left \in {Cardinality(RoundChunks(Rounds))} :
              /\ left >= 1
              /\ left <= in_chunks \/ left <= op.combine_size
        /\ Cardinality(RoundChunks(0)) = in_chunks

C37_Witness ==
    /\ Probed /\ pc = "done"
    /\ Rounds >= 1
    /\ Cardinality(RoundChunks(Rounds)) > op.combine_size

\* C10: a shuffle plan over n chunks entering the shuffle has exactly n reduce-stage
\* chunks and exactly n agg-stage chunks, one agg chunk per reduce chunk at the same
\* row position, with and without the pivot.
C10_OneAggPerReduce ==
    (pc = "done" /\ path = "shuffle") =>
        /\ Cardinality(StageChunks("reduce")) = Cardinality(Entering)
        /\ Cardinality(AggOps("agg")) = Cardinality(Entering)
        /\ Range(out_chunks) = AggOps("agg")
        /\ \A a \in AggOps("agg") :
              /\ Len(graph[a].inputs) = 1
              /\ graph[a].inputs[1] \in StageChunks("reduce")
              /\ graph[a].index = graph[graph[a].inputs[1]].index
        /\ \A r \in StageChunks("reduce") :
              Cardinality({a \in AggOps("agg") : graph[a].inputs[1] = r}) = 1
        /\ {graph[r].index : r \in StageChunks("reduce")} = 0..(Cardinality(Entering) - 1)

C10_WitnessPivot ==
    /\ pc = "done" /\ path = "shuffle"
    /\ PivotChunks # {}
    /\ Cardinality(Entering) >= 3

\* ============================================= claims on executed plans (SpecExec)
\* The rows of the whole unpartitioned dataset, in chunk order.
Whole == Flatten([i \in 1..in_chunks |-> ctx[i]])
Executed(chunks) == \A i \in DOMAIN chunks : chunks[i] \in DOMAIN ctx

\* C3: the result of executing the tree plan (map on each chunk, combine on each
\* positional batch, agg on the final concatenation) is the grouped sum of the whole
\* dataset, however the rows are spread over the input chunks.
C3_TreeResultIsWholeGroupedSum ==
    (pc = "done" /\ path = "tree" /\ Executed(out_chunks)) =>
        ctx[out_chunks[1]] = GroupBySum(Whole, op.groupby_params.sort)

C3_Witness ==
    /\ pc = "done" /\ path = "tree" /\ Executed(out_chunks)
    /\ Rounds >= 1
    /\ Cardinality(Feeds(out_chunks[1])) >= 2
    /\ \E i \in DOMAIN ctx[out_chunks[1]] : ctx[out_chunks[1]][i][2] >= 4

\* C8: in a shuffle plan every distinct key of the dataset ends up in the result of
\* exactly one agg chunk, no result holds any other key, and with sort=True every key
\* of agg chunk i is at most every key of agg chunk i+1.
C8_ShuffleBucketsPartitionKeys ==
    (pc = "done" /\ path = "shuffle" /\ Executed(out_chunks)) =>
        /\ \A k \in KeysOf(Whole) :
              Cardinality({a \in Range(out_chunks) : k \in KeysOf(ctx[a])}) = 1
        /\ \A a \in Range(out_chunks) :
              /\ KeysOf(ctx[a]) \subseteq KeysOf(Whole)
              /\ Cardinality(KeysOf(ctx[a])) = Len(ctx[a])
        /\ op.groupby_params.sort =>
              \A a, b \in Range(out_chunks) :
                 graph[a].index < graph[b].index =>
                    \A ka \in KeysOf(ctx[a]), kb \in KeysOf(ctx[b]) : ka <= kb

C8_Witness ==
    /\ pc = "done" /\ path = "shuffle" /\ Executed(out_chunks)
    /\ op.groupby_params.sort
    /\ PivotChunks # {}
    /\ Cardinality({a \in Range(out_chunks) : ctx[a] # <<>>}) >= 2
    /\ Cardinality(KeysOf(Whole)) = 3

\* ================================================ claims on a call of agg() (SpecCall)
\* C17 (as claimed): with as_index=False requested and a mock result index that is a
\* MultiIndex or a named single index, the operand's effective as_index is forced to
\* True, the user's original as_index=False is still preserved, and the agg stage
\* still resets the index in the user-visible output.
C17_ForcedAsIndexKeepsOriginal ==
    (/\ call.pc = "executed"
     /\ ~call.args.as_index
     /\ call.result_index \in {"multi", "named"}) =>
        /\ call.dicts[call.groupby_params].as_index = TRUE
        /\ call.dicts[call.raw_groupby_params].as_index = FALSE
        /\ call.index_reset

\* C18: a method other than 'tree', 'shuffle', 'auto' (or None) is rejected with an
\* error at once: no operand is made, no mock is run, no chunk and no Size Recorder is
\* created, and nothing is tried again; a method of None is planned as 'auto'.
C18_BadMethodRejectedAtOnce ==
    /\ (call.pc # "agg" /\ call.args.method \notin {"tree", "shuffle", "auto", "None"}) =>
          /\ call.pc = "raised"
          /\ call.error \in {"ValueError", "TypeError"}
          /\ call.args.is_groupby => call.error = "ValueError"
          /\ call.operands = 0
          /\ call.groupby_params = NoName
          /\ call.attempts = <<>>
          /\ Len(graph) = in_chunks
          /\ recorder.created = 0
    /\ (call.pc # "agg" /\ call.operands > 0 /\ call.args.method = "None") =>
          call.method = "auto"

C18_Witness ==
    /\ call.pc = "raised"
    /\ call.args.method = "hash"
    /\ call.args.is_groupby
    /\ call.error = "ValueError"

\* The first mock run of a call failed.
MockFailed ==
    /\ call.attempts # <<>>
    /\ call.args.mock_first # "ok"
\* build_mock_agg_result raised / returned.
MockRaised == call.pc = "raised" /\ call.result_index = "none"
MockReturned == call.result_index # "none"

\* C19 (as claimed): when the direct mock aggregation fails and as_index=False, the
\* mock is retried with as_index=True and the index names are stripped; the retry is
\* attempted at most once and its error is propagated; when as_index=True a failure
\* is propagated with no retry.
C19_MockRetriedWhenAsIndexOff ==
    MockFailed =>
        IF ~call.args.as_index
        THEN /\ call.attempts = <<FALSE, TRUE>>
             /\ call.args.mock_retry = "ok" => MockReturned /\ call.stripped
             /\ call.args.mock_retry # "ok" =>
                   MockRaised /\ call.error = call.args.mock_retry
        ELSE /\ call.attempts = <<TRUE>>
             /\ MockRaised
             /\ call.error = call.args.mock_first

\* C19 (amended): the mock is retried, once, with as_index=True and stripped index
\* names exactly when the direct mock fails with a ValueError, as_index=False and the
\* pandas release is at most 1.0; the retry's error is propagated; every other
\* failure of the direct mock is propagated with no retry.
C19_MockRetriedOnlyOnOldPandas ==
    MockFailed =>
        IF /\ call.args.mock_first = "ValueError"
           /\ ~call.args.as_index
           /\ ~SupportGetGroupWithoutAsIndex(call.args.pandas)
        THEN /\ call.attempts = <<FALSE, TRUE>>
             /\ call.args.mock_retry = "ok" =>
                   MockReturned /\ call.stripped /\ call.result_index # "named"
             /\ call.args.mock_retry # "ok" =>
                   MockRaised /\ call.error = call.args.mock_retry
        ELSE /\ call.attempts = <<call.args.as_index>>
             /\ ~call.stripped
             /\ MockRaised
             /\ call.error = call.args.mock_first

C19_Witness ==
    /\ MockFailed
    /\ call.attempts = <<FALSE, TRUE>>
    /\ call.stripped
    /\ call.pc = "tileable"

\* C20: with func=["sum","sum"] and as_index=True the final result of the agg stage
\* has one column per requested entry: for each value column two columns named sum,
\* each populated with that value column's sums, and the index is not reset.
C20_DuplicateFunctionsKept ==
    (call.args.func = <<"sum", "sum">> /\ call.args.as_index) =>
        /\ call.error # "KeyError"
        /\ (call.pc = "executed") =>
              /\ Len(call.columns) = 2 * Len(ValueColumns)
              /\ ~call.index_reset
              /\ \A i \in DOMAIN ValueColumns :
                    LET cols == SelectLabel(call.columns, <<ValueColumns[i], "sum">>)
                    IN /\ Len(cols) = 2
                       /\ \A j \in DOMAIN cols :
                             cols[j].data # NaN /\ cols[j].data[2] = ValueColumns[i]

C20_Witness ==
    /\ call.pc = "executed"
    /\ call.args.func = <<"sum", "sum">>
    /\ call.args.as_index
    /\ call.args.pandas = "1.5"
    /\ Len(call.columns) = 4

\* ================================================ claims on a subtask runner (SpecRunner)
\* C23: once a subtask runner has finished running a subtask, the result it reports
\* has status succeeded when every operand ran and errored when an operand raised,
\* and in both cases the runner reports itself free; while a subtask is running and a
\* cancel is pending the runner reports itself not free.
C23_RunnerResultAndSlot ==
    /\ runner.result.status \in {"succeeded", "errored"} =>
          /\ IsRunnerFree(runner)
          /\ (runner.result.status = "succeeded") <=>
                (runner.raised = "none"
                 /\ runner.executed = runner.result.subtask.chunks)
          /\ (runner.result.status = "errored") <=> (runner.raised # "none")
          /\ runner.result.error = runner.raised
    /\ (~IsRunnerFree(runner) /\ runner.raised # "none") =>
          runner.result.status = "pending"
    /\ runner.cancelling =>
          /\ runner.running_processor # NoSubtask
          /\ ~IsRunnerFree(runner)

C23_Witness ==
    /\ runner.result.status = "errored"
    /\ runner.result.subtask.id = 2
    /\ runner.executed = 2
    /\ IsRunnerFree(runner)

\* Planning of the call got as far as the output tileable.
Planned == call.pc \in {"tileable", "planned", "executed"}

\* C34 (as claimed): after planning a request, index_levels is 1 unless the mock
\* result index is multi-level, in which case it equals that index's number of
\* levels, for as_index=True and as_index=False requests alike.
C34_IndexLevelsOfMockIndex ==
    Planned =>
        call.index_levels = IF call.result_index = "multi" THEN call.args.by.keys ELSE 1

\* C34 (amended): index_levels is 1 unless the index of the mock result grouped with
\* as_index=True is multi-level, in which case it is that index's number of levels.
\* With as_index on (requested, or forced by _fix_as_index) that is the mock result's
\* own index; with as_index=False in effect it is the index of a second mock run with
\* as_index=True, and when that run raises it is len(by) for a list by, while for a by
\* that is no list the error is raised and nothing is planned.
C34_IndexLevelsOfAsIndexMock ==
    /\ Planned =>
          LET by == call.args.by
          IN IF call.dicts["groupby"].as_index
             THEN call.index_levels =
                     IF call.result_index = "multi" THEN by.keys ELSE 1
             ELSE /\ call.index_levels = by.keys
                  /\ call.args.mock_as_index = "ok" \/ by.list
    /\ (call.result_index # "none" /\ call.index_levels = NoValue) =>
          /\ call.pc = "raised"
          /\ ~call.dicts["groupby"].as_index
          /\ call.args.mock_as_index # "ok"
          /\ ~call.args.by.list

C34_Witness ==
    /\ call.pc = "executed"
    /\ ~call.args.as_index
    /\ call.result_index = "plain"
    /\ call.args.by.keys = 2
    /\ call.index_levels = 2

\* ================================== claims on operands run step by step (SpecSteps)
\* The executions of a handler so far.
RunsOf(handler) == {k \in DOMAIN events : events[k].handler = handler}

\* C35: the combine stage emits a tuple of the shape of the tuple it reads, for every
\* agg_funcs list, steps with an output count above 1 included: it emits as many
\* entries as it reads, and every step is applied to the input entries at the offset
\* that is the sum of the output counts of the steps before it.
C35_CombineKeepsTupleShape ==
    \A k \in RunsOf("_execute_combine") :
        LET chunk == events[k].chunk
            agg_funcs == op.agg_funcs
        IN /\ chunk \in DOMAIN ctx
           /\ Len(ctx[chunk]) = Len(ctx[chunk - 1])
           /\ \A i \in DOMAIN agg_funcs :
                 /\ i \in DOMAIN ctx[chunk]
                 /\ ctx[chunk][i].of =
                       [j \in 1..agg_funcs[i].output_limit |->
                           PackOffset(agg_funcs, i) + j]

C39_SumHonoursMinCount ==
    /\ \A k \in DOMAIN events : events[k].value <=> (op.min_count = 0)
    /\ 2 \in DOMAIN ctx =>
          /\ DOMAIN ctx[2] = DOMAIN ctx[1]
          /\ \A k \in DOMAIN ctx[1] :
                LET column == ctx[1][k]
                    present == {i \in DOMAIN column : column[i] # NotANumber}
                    plain == IF ~op.skipna /\ present # DOMAIN column
                             THEN NotANumber
                             ELSE SumSeq([i \in DOMAIN column |->
                                             IF i \in present THEN column[i] ELSE 0])
                IN ctx[2][k] = IF op.min_count = 0 \/ Cardinality(present) >= op.min_count
                               THEN plain
                               ELSE NotANumber

C39_Witness ==
    /\ op.min_count = 2
    /\ events # <<>>
    /\ 2 \in DOMAIN ctx
    /\ Len(ctx[1]) = 2
    /\ ctx[1][1] = <<1, 2>> /\ ctx[2][1] = 3
    /\ ctx[1][2] = <<NotANumber, 2>> /\ ctx[2][2] = NotANumber

====
